---- MODULE Spec2Model ----
(***************************************************************************)
(* Model of the ai-indexer orchestration engine: the commit cache, the     *)
(* per-repository pipeline (processRepo) and the job scheduler that fans   *)
(* repository jobs out over a pool of workers.                             *)
(*                                                                         *)
(* Go values are encoded as follows: a pointer to a bool or an int is a    *)
(* sequence                                                                *)
(* that is empty for nil and holds the pointee otherwise; a                *)
(* map[string]... is a function whose DOMAIN is the set of keys present;   *)
(* the empty string is "".                                                 *)
(***************************************************************************)
EXTENDS Integers, Sequences, FiniteSets, TLC

\* ---------------------------------------------------------------- bounds
MaxRepos == 2
MaxWorkers == 2
QueueCap == 1

\* ------------------------------------------------------------ value sets
RepoNames == <<"repo-one", "repo-two", "repo-three", "repo-four">>
Commits == {"c0", "c1"}
EmptyMap == [k \in {} |-> ""]
WorkerIds == 0..MaxWorkers

\* ---------------------------------------------------------------- strings
\* Where the characters of a string matter, the string is the sequence of
\* its characters (one-character strings).

Lower == <<"a", "b", "c", "d", "e", "f", "g", "h", "i", "j", "k", "l", "m",
           "n", "o", "p", "q", "r", "s", "t", "u", "v", "w", "x", "y", "z">>
Upper == <<"A", "B", "C", "D", "E", "F", "G", "H", "I", "J", "K", "L", "M",
           "N", "O", "P", "Q", "R", "S", "T", "U", "V", "W", "X", "Y", "Z">>
Letters == {Lower[i] : i \in DOMAIN Lower} \cup {Upper[i] : i \in DOMAIN Upper}
Digits == {"0", "1", "2", "3", "4", "5", "6", "7", "8", "9"}

\* unicode.IsSpace, for the characters used here
IsSpace(c) == c \in {" ", "\t", "\n", "\r"}

\* strings.ToLower that leaves every character as it is
ToLowerKeepsCase(str) == str

\* strings.ToLower
ToLower(str) ==
  [i \in DOMAIN str |->
     IF \E k \in DOMAIN Upper : Upper[k] = str[i]
     THEN Lower[CHOOSE k \in DOMAIN Upper : Upper[k] = str[i]]
     ELSE str[i]]

RECURSIVE TrimLeft(_)
TrimLeft(str) ==
  IF str # <<>> /\ IsSpace(Head(str)) THEN TrimLeft(Tail(str)) ELSE str

RECURSIVE TrimRight(_)
TrimRight(str) ==
  IF str # <<>> /\ IsSpace(str[Len(str)])
  THEN TrimRight(SubSeq(str, 1, Len(str) - 1)) ELSE str

\* strings.TrimSpace
TrimSpace(str) == TrimRight(TrimLeft(str))

RECURSIVE TrimLeftChar(_, _)
TrimLeftChar(str, c) ==
  IF str # <<>> /\ Head(str) = c THEN TrimLeftChar(Tail(str), c) ELSE str

RECURSIVE TrimRightChar(_, _)
TrimRightChar(str, c) ==
  IF str # <<>> /\ str[Len(str)] = c
  THEN TrimRightChar(SubSeq(str, 1, Len(str) - 1), c) ELSE str

\* strings.Trim(str, c) for a cutset of one character
Trim(str, c) == TrimRightChar(TrimLeftChar(str, c), c)

\* strings.HasPrefix and strings.TrimPrefix
HasPrefix(str, pre) ==
  Len(str) >= Len(pre) /\ SubSeq(str, 1, Len(pre)) = pre
TrimPrefix(str, pre) ==
  IF HasPrefix(str, pre) THEN SubSeq(str, Len(pre) + 1, Len(str)) ELSE str

\* strings.Split(str, sep) for a separator of one character
RECURSIVE Split(_, _)
Split(str, sep) ==
  IF str = <<>> THEN << <<>> >>
  ELSE LET rest == Split(Tail(str), sep)
       IN IF Head(str) = sep THEN << <<>> >> \o rest
          ELSE << <<Head(str)>> \o Head(rest) >> \o Tail(rest)

\* strings.Join
RECURSIVE Join(_, _)
Join(parts, sep) ==
  IF parts = <<>> THEN <<>>
  ELSE IF Len(parts) = 1 THEN parts[1]
  ELSE parts[1] \o sep \o Join(Tail(parts), sep)

\* strings.ReplaceAll(str, old, new) for old and new of one character
ReplaceChar(str, old, new) ==
  [i \in DOMAIN str |-> IF str[i] = old THEN new ELSE str[i]]

\* strings.ReplaceAll(str, "\r\n", "\n")
RECURSIVE ReplaceCRLF(_)
ReplaceCRLF(str) ==
  IF str = <<>> THEN <<>>
  ELSE IF HasPrefix(str, <<"\r", "\n">>)
  THEN <<"\n">> \o ReplaceCRLF(SubSeq(str, 3, Len(str)))
  ELSE <<Head(str)>> \o ReplaceCRLF(Tail(str))

\* ------------------------------------------------------------------ paths
\* path/filepath on a system whose separator is "/"

IsAbs(path) == path # <<>> /\ path[1] = "/"

\* filepath.Clean, the walk over the components: "" and "." are dropped,
\* ".." removes the component before it (at the root it is dropped, at the
\* start of a relative path it stays)
RECURSIVE CleanWalk(_, _, _)
CleanWalk(comps, kept, rooted) ==
  IF comps = <<>> THEN kept
  ELSE LET c == Head(comps)
           dotdot == <<".", ".">>
       IN IF c = <<>> \/ c = <<".">> THEN CleanWalk(Tail(comps), kept, rooted)
          ELSE IF c = dotdot
          THEN IF kept # <<>> /\ kept[Len(kept)] # dotdot
               THEN CleanWalk(Tail(comps), SubSeq(kept, 1, Len(kept) - 1), rooted)
               ELSE IF rooted THEN CleanWalk(Tail(comps), kept, rooted)
               ELSE CleanWalk(Tail(comps), Append(kept, c), rooted)
          ELSE CleanWalk(Tail(comps), Append(kept, c), rooted)

\* filepath.Clean
Clean(path) ==
  LET kept == CleanWalk(Split(path, "/"), <<>>, IsAbs(path))
      body == Join(kept, <<"/">>)
  IN IF IsAbs(path) THEN <<"/">> \o body
     ELSE IF body = <<>> THEN <<".">> ELSE body

\* filepath.Base
Base(path) ==
  IF path = <<>> THEN <<".">>
  ELSE LET cut == TrimRightChar(path, "/")
       IN IF cut = <<>> THEN <<"/">>
          ELSE LET comps == Split(cut, "/") IN comps[Len(comps)]

\* filepath.Join of two elements
JoinPath(a, b) ==
  IF a = <<>> /\ b = <<>> THEN <<>>
  ELSE IF a = <<>> THEN Clean(b)
  ELSE IF b = <<>> THEN Clean(a)
  ELSE Clean(a \o <<"/">> \o b)

\* filepath.Rel(base, target) for a clean absolute base other than "/" and
\* a clean target at or below it: <<relative path, ok>>
RelPath(base, target) ==
  IF target = base THEN << <<".">>, TRUE >>
  ELSE IF HasPrefix(target, base \o <<"/">>)
  THEN <<SubSeq(target, Len(base) + 2, Len(target)), TRUE>>
  ELSE << <<>>, FALSE >>

\* filepath.ToSlash: the separator is "/" already
ToSlash(path) == ReplaceChar(path, "/", "/")

\* Outcomes of the external collaborators (git, the agent process, the
\* file system), drawn when the pipeline reaches the call:
\*   db    detectDefaultBranch ("" on error or when there is none)
\*   ws    prepareIndexWorkspace's first failing step, or "ok"
\*   cur   currentBranch ("" on error)
\*   head  headCommit ("" on error)
\*   diff  git diff: failure, no changed file, one changed file
\*   agent how the agent process ends
\*   save  whether writing the cache file works
FullEnv ==
  [db |-> {"", "main"}, ws |-> {"mkdirfail", "fetchfail", "addfail", "ok"},
   cur |-> {"", "dev"}, head |-> {"", "c1"}, diff |-> {"fail", "none", "one"},
   agent |-> {"exit0", "exitN", "startfail", "timeout"},
   save |-> {"ok", "fail"}]

\* The outcomes drawn in runs with several workers
PoolEnv ==
  [db |-> {"", "main"}, ws |-> {"fetchfail", "ok"},
   cur |-> {""}, head |-> {"c1"}, diff |-> {"one"},
   agent |-> {"exit0", "exitN", "timeout"}, save |-> {"ok"}]

VARIABLES cfg, pc, queue, closed, nextIdx, wk, results, cache, file, hist

\* The commit cache on its own, with the file system under it:
\*   ccfg  the cache path, the number of callers, the file found at startup
\*   cst   "boot", "ready", "aborted" (load failed) or "crashed"
\*   mem   commitCache.data
\*   disk  the files at the cache path and at the temporary path
\*   cl    the callers of the cache: position inside Save, last call made
VARIABLES ccfg, cst, mem, disk, cl

\* One agent invocation (runCodex) with its keep-alive input source:
\*   nf   the newlineFeeder: first, done (closed or not), its sync.Once
\*   rd   the goroutine that reads from the feeder
\*   cs   the callers of Close
\*   inv  the invocation: position inside runCodex, outcome, return values
VARIABLES nf, rd, cs, inv

\* One call of a function that depends on its arguments only:
\*   fn   the function called and its arguments ("none": no call yet)
\*   ret  what the call returned
VARIABLES fn, ret

\* The shared progress/log stream behind its lock-wrapped writer:
\*   lw   the number of workers, the holder of the lock, each worker's
\*        position in its Write call, and what has reached the stream
VARIABLES lw

runVars == <<cfg, pc, queue, closed, nextIdx, wk, results, cache, file, hist>>
storeVars == <<ccfg, cst, mem, disk, cl>>
feederVars == <<nf, rd, cs, inv>>
pureVars == <<fn, ret>>
outVars == <<lw>>
compVars == <<storeVars, feederVars, pureVars, outVars>>

vars == <<runVars, compVars>>

\* the commit cache component when the model is about a whole run
StoreOff ==
  /\ ccfg = [path |-> "", callers |-> 0, found |-> <<>>]
  /\ cst = "off"
  /\ mem = [k \in {} |-> ""]
  /\ disk = [final |-> <<>>, tmp |-> <<>>]
  /\ cl = <<>>

\* the agent invocation component when the model is about something else
FeederOff ==
  /\ nf = [made |-> FALSE]
  /\ rd = [at |-> "off"]
  /\ cs = <<>>
  /\ inv = [pc |-> "off"]

\* no function call is looked at
PureOff ==
  /\ fn = [name |-> "off"]
  /\ ret = <<>>

\* no output stream is looked at
OutOff == lw = [workers |-> 0]

CompOff == StoreOff /\ FeederOff /\ PureOff /\ OutOff

\* ------------------------------------------------------------ commit cache

\* commitCache.LastCommit: <<commit, ok>>
LastCommit(data, repoSlug, branch) ==
  IF repoSlug = "" \/ branch = "" THEN <<"", FALSE>>
  ELSE IF repoSlug \notin DOMAIN data THEN <<"", FALSE>>
  ELSE IF branch \notin DOMAIN data[repoSlug] THEN <<"", FALSE>>
  ELSE <<data[repoSlug][branch], TRUE>>

\* Update that only refuses an empty slug
UpdateAnyBranch(data, repoSlug, branch, commit) ==
  IF repoSlug = "" THEN data
  ELSE LET branches == IF repoSlug \in DOMAIN data THEN data[repoSlug] ELSE EmptyMap
           updated == IF branch = "" \/ commit = "" THEN branches
                      ELSE [b \in DOMAIN branches \cup {branch} |->
                              IF b = branch THEN commit ELSE branches[b]]
       IN [s \in DOMAIN data \cup {repoSlug} |->
             IF s = repoSlug THEN updated ELSE data[s]]

\* commitCache.Update, as a function from the map it read to the map it leaves
Update(data, repoSlug, branch, commit) ==
  IF repoSlug = "" \/ branch = "" \/ commit = "" THEN data
  ELSE LET branches == IF repoSlug \in DOMAIN data THEN data[repoSlug] ELSE EmptyMap
           updated == [b \in DOMAIN branches \cup {branch} |->
                         IF b = branch THEN commit ELSE branches[b]]
       IN [s \in DOMAIN data \cup {repoSlug} |->
             IF s = repoSlug THEN updated ELSE data[s]]

\* ------------------------------------------------------- paths and slugs

\* A path is the sequence of its components.
RootDir == <<"ws">>
RepoDir(i) == Append(RootDir, RepoNames[i])

\* filepath.Rel for a repoDir at or below rootDir
Rel(rootDir, repoDir) == SubSeq(repoDir, Len(rootDir) + 1, Len(repoDir))

\* computeCollectionSlug, for repositories at the scan root or directly
\* below it (one component, so no separator to replace)
ComputeCollectionSlug(rootDir, repoDir) ==
  LET rel == Rel(rootDir, repoDir)
  IN IF rel = <<>> THEN "root" ELSE rel[1]

\* shouldSkipRepo that never excludes a repository
ShouldSkipRepoNever(skip, rootDir, repoDir, slug) == <<FALSE, "">>

\* computeCollectionSlug on the characters of the paths, for a clean
\* absolute rootDir and a repoDir at or below it
ComputeSlug(rootDir, repoDir) ==
  LET r == RelPath(rootDir, repoDir)
      rel == IF ~r[2] \/ r[1] = <<".">> THEN <<"r", "o", "o", "t">> ELSE r[1]
  IN ReplaceChar(TrimPrefix(rel, <<".", "/">>), "/", "_")

\* fmt's %q for the characters used here: the string in double quotes,
\* with quotes, backslashes and control characters escaped
RECURSIVE QuoteBody(_)
QuoteBody(str) ==
  IF str = <<>> THEN <<>>
  ELSE LET c == Head(str)
           e == IF c = "\"" THEN <<"\\", "\"">>
                ELSE IF c = "\\" THEN <<"\\", "\\">>
                ELSE IF c = "\t" THEN <<"\\", "t">>
                ELSE IF c = "\n" THEN <<"\\", "n">>
                ELSE IF c = "\r" THEN <<"\\", "r">>
                ELSE <<c>>
       IN e \o QuoteBody(Tail(str))
Quote(str) == <<"\"">> \o QuoteBody(str) \o <<"\"">>

\* the reason shouldSkipRepo gives: the fixed text, then the pattern as it
\* was given, quoted
SkipReason(raw) == <<"repo excluded via --skip-repo ">> \o Quote(raw)

\* shouldSkipRepo, the body of the loop: the pattern raw excludes the
\* repository
SkipPatternHits(raw, rootDir, repoAbs, relLower, slug) ==
  LET pattern == TrimSpace(raw)
      rawLower == ToLower(pattern)
      cleaned == Clean(pattern)
  IN /\ pattern # <<>>
     /\ \/ rawLower = ToLower(slug)
        \/ rawLower = ToLower(Base(repoAbs))
        \/ rawLower = relLower
        \/ ToLower(cleaned) = ToLower(repoAbs)
        \/ ToLower(ToSlash(cleaned)) = relLower
        \/ /\ ~IsAbs(cleaned)
           /\ ToLower(Clean(JoinPath(rootDir, cleaned))) = ToLower(repoAbs)

\* shouldSkipRepo on the characters of patterns and paths:
\* <<skip, reason>>, the reason naming the first pattern that hits
ShouldSkip(skip, rootDir, repoDir, slug) ==
  LET repoAbs == Clean(repoDir)
      r == RelPath(rootDir, repoAbs)
      rel == IF r[2] THEN r[1] ELSE repoAbs
      relLower == ToLower(ToSlash(TrimPrefix(rel, <<".", "/">>)))
      hits == {k \in 1..Len(skip) :
                 SkipPatternHits(skip[k], rootDir, repoAbs, relLower, slug)}
  IN IF hits = {} THEN <<FALSE, <<>>>>
     ELSE <<TRUE, SkipReason(skip[CHOOSE k \in hits : \A j \in hits : k <= j])>>

\* shouldSkipRepo for patterns that are plain names: a pattern matches the
\* slug, the base name or the root-relative path; <<skip, reason>>
ShouldSkipRepo(skip, rootDir, repoDir, slug) ==
  LET base == repoDir[Len(repoDir)]
      rel == Rel(rootDir, repoDir)
      hit(p) == p # "" /\ (p = slug \/ p = base \/ rel = <<p>>)
  IN IF \E k \in 1..Len(skip) : hit(skip[k])
     THEN <<TRUE, "repo excluded via --skip-repo">>
     ELSE <<FALSE, "">>

\* ------------------------------------------------------------ processRepo

\* NewResult with the scan root recorded as the repository's path
NewResultRootPath(repoDir, slug, dryRun) ==
  [path |-> RootDir, slug |-> slug, dryRun |-> dryRun, skipReason |-> "",
   defaultBranch |-> "", checkoutOK |-> <<>>, pullOK |-> <<>>,
   indexedCommit |-> "", cachedCommit |-> "", diffBase |-> "",
   diffCount |-> 0, ran |-> FALSE, exitCode |-> <<>>, error |-> ""]

\* RepoResult as processRepo creates it
NewResult(repoDir, slug, dryRun) ==
  [path |-> repoDir, slug |-> slug, dryRun |-> dryRun, skipReason |-> "",
   defaultBranch |-> "", checkoutOK |-> <<>>, pullOK |-> <<>>,
   indexedCommit |-> "", cachedCommit |-> "", diffBase |-> "",
   diffCount |-> 0, ran |-> FALSE, exitCode |-> <<>>, error |-> ""]

\* sanitizePathComponent that has no token for an empty input
SanitizePathComponentNoDefault(value) ==
  LET v == TrimSpace(value)
      out == [i \in DOMAIN v |->
                IF v[i] \in Letters \cup Digits \cup {"-", "_", "."}
                THEN v[i] ELSE "_"]
  IN IF Trim(out, "_") = <<>> /\ v # <<>>
     THEN <<"c", "o", "m", "p", "o", "n", "e", "n", "t">>
     ELSE out

\* sanitizePathComponent
SanitizePathComponent(value) ==
  LET v == TrimSpace(value)
      out == [i \in DOMAIN v |->
                IF v[i] \in Letters \cup Digits \cup {"-", "_", "."}
                THEN v[i] ELSE "_"]
  IN IF v = <<>> THEN <<"d", "e", "f", "a", "u", "l", "t">>
     ELSE IF Trim(out, "_") = <<>>
     THEN <<"c", "o", "m", "p", "o", "n", "e", "n", "t">>
     ELSE out

\* os.TempDir() joined with worktreeRootDirName
WorktreeBase == JoinPath(<<"/", "tmp">>, <<"codex-indexer-worktrees">>)

\* prepareIndexWorkspace: the path of the worktree for a slug and a branch
WorktreePath(slug, branch) ==
  JoinPath(WorktreeBase,
           SanitizePathComponent(slug) \o <<"-">> \o SanitizePathComponent(branch))

\* prepareIndexWorkspace that reports a failed worktree add like a failed
\* fetch
PrepareIndexWorkspaceOneFailure(branch, dryRun, outcome) ==
  IF branch = "" \/ dryRun
  THEN [dir |-> "repo", checkoutOK |-> <<>>, pullOK |-> <<>>, cleanup |-> FALSE]
  ELSE IF outcome \in {"mkdirfail", "fetchfail", "addfail"}
  THEN [dir |-> "repo", checkoutOK |-> <<FALSE>>, pullOK |-> <<FALSE>>, cleanup |-> FALSE]
  ELSE [dir |-> "worktree", checkoutOK |-> <<TRUE>>, pullOK |-> <<TRUE>>, cleanup |-> TRUE]

\* prepareIndexWorkspace that makes the worktree in dry-run mode too
PrepareIndexWorkspaceAlways(branch, dryRun, outcome) ==
  IF branch = ""
  THEN [dir |-> "repo", checkoutOK |-> <<>>, pullOK |-> <<>>, cleanup |-> FALSE]
  ELSE IF outcome \in {"mkdirfail", "fetchfail"}
  THEN [dir |-> "repo", checkoutOK |-> <<FALSE>>, pullOK |-> <<FALSE>>, cleanup |-> FALSE]
  ELSE IF outcome = "addfail"
  THEN [dir |-> "repo", checkoutOK |-> <<FALSE>>, pullOK |-> <<TRUE>>, cleanup |-> FALSE]
  ELSE [dir |-> "worktree", checkoutOK |-> <<TRUE>>, pullOK |-> <<TRUE>>, cleanup |-> TRUE]

\* prepareIndexWorkspace: where to index, the sync flags, and whether a
\* cleanup function is returned
PrepareIndexWorkspace(branch, dryRun, outcome) ==
  IF branch = "" \/ dryRun
  THEN [dir |-> "repo", checkoutOK |-> <<>>, pullOK |-> <<>>, cleanup |-> FALSE]
  ELSE IF outcome \in {"mkdirfail", "fetchfail"}
  THEN [dir |-> "repo", checkoutOK |-> <<FALSE>>, pullOK |-> <<FALSE>>, cleanup |-> FALSE]
  ELSE IF outcome = "addfail"
  THEN [dir |-> "repo", checkoutOK |-> <<FALSE>>, pullOK |-> <<TRUE>>, cleanup |-> FALSE]
  ELSE [dir |-> "worktree", checkoutOK |-> <<TRUE>>, pullOK |-> <<TRUE>>, cleanup |-> TRUE]

\* the commands prepareIndexWorkspace runs that change the file system or
\* the repository, up to the first that fails
WorkspaceCommands(branch, dryRun, outcome) ==
  IF branch = "" \/ dryRun THEN <<>>
  ELSE IF outcome = "mkdirfail" THEN <<"RemoveAll", "MkdirAll">>
  ELSE IF outcome = "fetchfail" THEN <<"RemoveAll", "MkdirAll", "git fetch">>
  ELSE <<"RemoveAll", "MkdirAll", "git fetch", "git worktree add">>

\* selectIndexBranch; current is what currentBranch reports ("" on error)
SelectIndexBranch(defaultBranch, current) ==
  IF defaultBranch # "" THEN defaultBranch ELSE current

\* evaluateSkip without the comparison of the cached and the current commit
EvaluateSkipNoHit(hasCache, data, slug, branch, commit) ==
  IF ~hasCache \/ branch = "" \/ commit = "" THEN <<"", "">>
  ELSE LET last == LastCommit(data, slug, branch)
       IN IF ~last[2] THEN <<"", "">> ELSE <<"", last[1]>>

\* evaluateSkip: <<skip reason, cached commit>>
EvaluateSkip(hasCache, data, slug, branch, commit) ==
  IF ~hasCache \/ branch = "" \/ commit = "" THEN <<"", "">>
  ELSE LET last == LastCommit(data, slug, branch)
       IN IF ~last[2] THEN <<"", "">>
          ELSE IF last[1] = commit THEN <<"already indexed", last[1]>>
          ELSE <<"", last[1]>>

\* DiffLines that keeps the blank lines
DiffLinesKeepBlank(output) ==
  LET lines == Split(ReplaceCRLF(output), "\n")
  IN [i \in DOMAIN lines |-> TrimSpace(lines[i])]

\* diffFilesSince, the lines of git's output: trimmed, blank ones dropped
DiffLines(output) ==
  LET lines == Split(ReplaceCRLF(output), "\n")
      NotBlank(l) == l # <<>>
  IN SelectSeq([i \in DOMAIN lines |-> TrimSpace(lines[i])], NotBlank)

\* diffFilesSince for a run of git diff that fails or prints output:
\* [err, files, git], git counting the runs of git diff
DiffNameOnly(baseCommit, gitFails, output) ==
  IF baseCommit = "" THEN [err |-> TRUE, files |-> <<>>, git |-> 0]
  ELSE IF gitFails THEN [err |-> TRUE, files |-> <<>>, git |-> 1]
  ELSE [err |-> FALSE, files |-> DiffLines(output), git |-> 1]

\* diffFilesSince: [err, files]; git diff fails, prints nothing or prints
\* one line
DiffFilesSince(baseCommit, outcome) ==
  LET d == DiffNameOnly(baseCommit, outcome = "fail",
                        IF outcome = "one" THEN <<"f", "\n">> ELSE <<>>)
  IN [err |-> d.err, files |-> d.files]

\* runCodex that reports no exit code when the process could not be started
RunCodexNoDefaultCode(dryRun, outcome) ==
  IF dryRun THEN [ran |-> FALSE, exitCode |-> <<>>, err |-> ""]
  ELSE IF outcome = "exit0" THEN [ran |-> TRUE, exitCode |-> <<>>, err |-> ""]
  ELSE IF outcome = "exitN" THEN [ran |-> TRUE, exitCode |-> <<2>>, err |-> "codex exec"]
  ELSE IF outcome = "startfail" THEN [ran |-> TRUE, exitCode |-> <<>>, err |-> "codex exec"]
  ELSE IF outcome = "exitN late"
  THEN [ran |-> TRUE, exitCode |-> <<2>>, err |-> "codex exec deadline exceeded"]
  ELSE [ran |-> TRUE, exitCode |-> <<0 - 1>>, err |-> "codex exec deadline exceeded"]

\* runCodex: (ran, exit code, error) for each way the invocation can end:
\* the process exits with code 0 or with another code, cannot be started,
\* is killed at the deadline ("timeout"), or exits with a non-zero code by
\* itself while the deadline has passed by the time runCodex looks at the
\* context ("exitN late")
RunCodex(dryRun, outcome) ==
  IF dryRun THEN [ran |-> FALSE, exitCode |-> <<>>, err |-> ""]
  ELSE IF outcome = "exit0" THEN [ran |-> TRUE, exitCode |-> <<>>, err |-> ""]
  ELSE IF outcome = "exitN" THEN [ran |-> TRUE, exitCode |-> <<2>>, err |-> "codex exec"]
  ELSE IF outcome = "startfail" THEN [ran |-> TRUE, exitCode |-> <<1>>, err |-> "codex exec"]
  ELSE IF outcome = "exitN late"
  THEN [ran |-> TRUE, exitCode |-> <<2>>, err |-> "codex exec deadline exceeded"]
  ELSE [ran |-> TRUE, exitCode |-> <<0 - 1>>, err |-> "codex exec deadline exceeded"]

\* AgentStarts with the process run a second time
AgentStartsRetry(dryRun) == IF dryRun THEN 0 ELSE 2

\* the number of agent processes one call of runCodex starts
AgentStarts(dryRun) == IF dryRun THEN 0 ELSE 1

\* ShouldUpdateCache without the checks of branch and revision
ShouldUpdateCacheUnknown(err, dryRun, hasCache, indexBranch, indexedCommit) ==
  err = "" /\ ~dryRun /\ hasCache

\* ShouldUpdateCache without the check of runCodex's error
ShouldUpdateCacheAnyExit(err, dryRun, hasCache, indexBranch, indexedCommit) ==
  ~dryRun /\ hasCache /\ indexBranch # "" /\ indexedCommit # ""

\* processRepo's condition for updating the cache after runCodex
ShouldUpdateCache(err, dryRun, hasCache, indexBranch, indexedCommit) ==
  err = "" /\ ~dryRun /\ hasCache /\ indexBranch # "" /\ indexedCommit # ""

\* runCodex: the environment variables added for the agent process, as a
\* set of <<name, value>> pairs
CodexEnv(slug, baseCommit, diffFiles) ==
  {<<"COLLECTION_SLUG", slug>>}
    \cup (IF baseCommit # "" THEN {<<"INDEX_BASE_COMMIT", baseCommit>>} ELSE {})
    \cup (IF Len(diffFiles) > 0 THEN {<<"INDEX_DIFF_FILES", diffFiles>>} ELSE {})

\* the stages of processRepo in the order it runs them: the skip check,
\* then, unless the repository is excluded, default-branch detection,
\* workspace preparation, branch and revision detection and the cache
\* lookup, then, unless the revision is cached, the change set (when there
\* is a cached revision; failed or not) and the agent
PipelineStages(excluded, cacheHit, cachedCommit, diffErr) ==
  IF excluded THEN <<"skip">>
  ELSE <<"skip", "branch", "workspace", "revision", "lookup">>
         \o (IF cacheHit THEN <<>>
             ELSE (IF cachedCommit = "" THEN <<>>
                   ELSE IF diffErr THEN <<"diff failed">> ELSE <<"diff">>)
                  \o <<"agent">>)

\* processRepo from its start to the call of runCodex: the result so far,
\* the locals that stay live, and whether the function returns early;
\* tree is the branch checked out in the directory the agent is started
\* in: the default branch in the worktree, else the repository's current
\* branch ("" when that is unknown)
ProcessRepoHead(c, repoDir, data, db, ws, cur, head, diff) ==
  LET slug == ComputeCollectionSlug(RootDir, repoDir)
      r0 == NewResult(repoDir, slug, c.dryRun)
      sk == ShouldSkipRepo(c.skip, RootDir, repoDir, slug)
      prep == PrepareIndexWorkspace(db, c.dryRun, ws)
      indexBranch == SelectIndexBranch(db, cur)
      r1 == [r0 EXCEPT !.defaultBranch = IF db = "" THEN indexBranch ELSE db,
                       !.checkoutOK = prep.checkoutOK,
                       !.pullOK = prep.pullOK,
                       !.indexedCommit = head]
      ev == EvaluateSkip(c.cache # "nil", data, slug, indexBranch, head)
      r2 == [r1 EXCEPT !.skipReason = ev[1], !.cachedCommit = ev[2]]
      d == DiffFilesSince(ev[2], diff)
      r3 == IF ev[2] = "" THEN r2
            ELSE [r2 EXCEPT !.diffBase = ev[2],
                            !.diffCount = IF d.err THEN 0 ELSE Len(d.files)]
  IN IF sk[1]
     THEN [res |-> [r0 EXCEPT !.skipReason = sk[2]], returns |-> TRUE, lookedUp |-> FALSE,
           indexBranch |-> "", cleanup |-> FALSE, diffFiles |-> <<>>, cmds |-> <<>>,
           stages |-> PipelineStages(TRUE, FALSE, "", FALSE), dir |-> "", env |-> {}]
     ELSE IF ev[1] # ""
     THEN [res |-> r2, returns |-> TRUE, lookedUp |-> TRUE,
           indexBranch |-> indexBranch, cleanup |-> prep.cleanup, diffFiles |-> <<>>,
           cmds |-> WorkspaceCommands(db, c.dryRun, ws),
           stages |-> PipelineStages(FALSE, TRUE, ev[2], FALSE),
           dir |-> prep.dir, env |-> {}]
     ELSE [res |-> r3, returns |-> FALSE,
           lookedUp |-> (c.cache # "nil" /\ indexBranch # "" /\ head # ""),
           indexBranch |-> indexBranch, cleanup |-> prep.cleanup, diffFiles |-> d.files,
           cmds |-> WorkspaceCommands(db, c.dryRun, ws),
           stages |-> PipelineStages(FALSE, FALSE, ev[2], d.err),
           dir |-> prep.dir, env |-> CodexEnv(slug, r3.cachedCommit, d.files),
           tree |-> IF prep.dir = "worktree" THEN db ELSE cur]

\* ProcessRepoTail that keeps no exit code
ProcessRepoTailNoCode(res, rc) ==
  [res EXCEPT !.ran = rc.ran,
              !.error = IF rc.err # "" THEN rc.err ELSE @]

\* processRepo after runCodex returned: the result with the agent's outcome
ProcessRepoTail(res, rc) ==
  [res EXCEPT !.ran = rc.ran,
              !.exitCode = IF rc.exitCode # <<>> THEN rc.exitCode ELSE @,
              !.error = IF rc.err # "" THEN rc.err ELSE @]


\* ------------------------------------------------------------------ state

\* cfg      the arguments of the run: repository count, worker count,
\*          dry-run flag, skip patterns, and how the cache is configured
\*          ("nil": no cache object, "memory": no path, "file": a path)
\* pc       where runAll is
\* queue    the shared work queue of indices; closed: it has been closed
\* nextIdx  the next input position to hand out
\* wk       per worker: its position in the worker loop and in processRepo,
\*          and processRepo's live locals
\* results  the pre-sized results collection (<<>>: slot not written)
\* cache    commitCache.data;  file: the cache file (<<>>: no file)
\* hist     per input position, how often each step of the run happened

WorkerCounts == {0 - 1, 0, 1} \cup (2..MaxWorkers)
SkipLists == {<<>>, <<RepoNames[1]>>}
CacheModes == {"nil", "memory", "file"}
InitialCaches ==
  {EmptyMap} \cup {[s \in {RepoNames[1]} |-> [b \in {"main"} |-> c]] : c \in Commits}

Configs ==
  [n : 1..MaxRepos, workers : WorkerCounts, dryRun : BOOLEAN,
   skip : SkipLists, cache : CacheModes]

RepoPaths(c) == [i \in 1..c.n |-> RepoDir(i)]

\* runAll runs strictly sequentially for these arguments
Sequential(c) == c.workers <= 1 \/ c.n = 1

\* Pool that falls back to the largest pool when the count is not positive
PoolDefaultsToMax(c) ==
  IF c.n = 1 \/ c.workers = 1 THEN {0}
  ELSE 1..(IF c.workers <= 0 THEN MaxWorkers ELSE c.workers)

\* the workers of the run: the caller itself (0) or a pool of c.workers
Pool(c) == IF Sequential(c) THEN {0} ELSE 1..c.workers

Off == [phase |-> "off", job |-> 0, res |-> <<>>, indexBranch |-> "",
        cleanup |-> FALSE, diffFiles |-> <<>>, snap |-> {}, tree |-> ""]
Idle == [Off EXCEPT !.phase = "idle"]

\* overtaken: the result was stored after that of a later input position;
\* wsCmds: the commands prepareIndexWorkspace ran for the job; stages: the
\* stages of processRepo that ran; dir: the directory the job worked in;
\* env: the environment runCodex built; foreign: how often the job's agent
\* was terminated by the deadline of another job's invocation
NoHist == [taken |-> 0, started |-> 0, agent |-> 0, updates |-> 0,
           cleanups |-> 0, stored |-> 0, overtaken |-> FALSE, wsCmds |-> 0,
           stages |-> <<>>, dir |-> "", env |-> {}, foreign |-> 0]

Init ==
  /\ cfg \in Configs
  /\ pc = "start"
  /\ queue = <<>>
  /\ closed = FALSE
  /\ nextIdx = 1
  /\ wk = [w \in WorkerIds |-> Off]
  /\ results = [i \in 1..cfg.n |-> <<>>]
  /\ cache \in (IF cfg.cache = "file" THEN InitialCaches ELSE {EmptyMap})
  /\ file = IF cache = EmptyMap THEN <<>> ELSE <<cache>>
  /\ hist = [i \in 1..cfg.n |-> NoHist]
  /\ CompOff

Running == pc \in {"seq", "feed", "wait"}

\* a worker is between the read and the write of commitCache.Update
InUpdate(w) == wk[w].phase = "updating"

BumpBy(h, i, f, k) == [h EXCEPT ![i][f] = @ + k]
Bump(h, i, f) == BumpBy(h, i, f, 1)

\* ------------------------------------------------------------- scheduler

\* runAll: choose sequential execution or start the pool
RunAllStart ==
  /\ pc = "start"
  /\ pc' = IF Pool(cfg) = {0} THEN "seq" ELSE "feed"
  /\ wk' = [w \in WorkerIds |-> IF w \in Pool(cfg) THEN Idle ELSE Off]
  /\ UNCHANGED <<compVars, cfg, queue, closed, nextIdx, results, cache, file, hist>>

\* sequential loop: the caller processes the next repository itself
SeqTake ==
  /\ pc = "seq" /\ wk[0].phase = "idle" /\ nextIdx <= cfg.n
  /\ wk' = [wk EXCEPT ![0] = [Idle EXCEPT !.phase = "prep", !.job = nextIdx]]
  /\ nextIdx' = nextIdx + 1
  /\ UNCHANGED <<compVars, cfg, pc, queue, closed, results, cache, file, hist>>

\* commitCache.Save: the file after a save of data under the given outcome
Save(path, data, old, outcome) ==
  IF path = "" THEN old
  ELSE IF outcome = "ok" THEN <<data>> ELSE old

CachePath(c) == IF c.cache = "file" THEN "cache.json" ELSE ""

\* the cache file is written once more after the whole batch
PersistAtEnd(E) ==
  \E o \in E.save : file' = Save(CachePath(cfg), cache, file, o)

\* sequential loop: every repository is processed, the run returns
SeqReturn(E) ==
  /\ pc = "seq" /\ wk[0].phase = "idle" /\ nextIdx > cfg.n
  /\ PersistAtEnd(E)
  /\ pc' = "returned"
  /\ UNCHANGED <<compVars, cfg, queue, closed, nextIdx, wk, results, cache, hist>>

\* the caller puts the next (index, path) pair on the queue
Enqueue ==
  /\ pc = "feed" /\ nextIdx <= cfg.n /\ Len(queue) < QueueCap
  /\ queue' = Append(queue, nextIdx)
  /\ nextIdx' = nextIdx + 1
  /\ UNCHANGED <<compVars, cfg, pc, closed, wk, results, cache, file, hist>>

\* all pairs are queued: close the queue and wait for the workers
CloseQueue ==
  /\ pc = "feed" /\ nextIdx > cfg.n
  /\ closed' = TRUE
  /\ pc' = "wait"
  /\ UNCHANGED <<compVars, cfg, queue, nextIdx, wk, results, cache, file, hist>>

\* TakeHead that leaves the received pair on the queue
TakeHeadKeep(q) == q

\* the queue after a receive
TakeHead(q) == Tail(q)

\* a worker takes the pair at the head of the queue
Dequeue(w) ==
  /\ Running /\ wk[w].phase = "idle" /\ w # 0 /\ queue # <<>>
  /\ wk' = [wk EXCEPT ![w] = [Idle EXCEPT !.phase = "prep", !.job = Head(queue)]]
  /\ queue' = TakeHead(queue)
  /\ hist' = Bump(hist, Head(queue), "taken")
  /\ UNCHANGED <<compVars, cfg, pc, closed, nextIdx, results, cache, file>>

\* the queue is closed and empty: the worker leaves its loop
WorkerExit(w) ==
  /\ Running /\ wk[w].phase = "idle" /\ w # 0 /\ queue = <<>> /\ closed
  /\ wk' = [wk EXCEPT ![w].phase = "exited"]
  /\ UNCHANGED <<compVars, cfg, pc, queue, closed, nextIdx, results, cache, file, hist>>

\* AllExited that is satisfied by the first worker to leave
AllExitedAny(c, workers) == \E w \in Pool(c) : workers[w].phase = "exited"

\* the wait for the pool is over: every worker has left its loop
AllExited(c, workers) == \A w \in Pool(c) : workers[w].phase = "exited"

\* runAll returns
WaitReturn(E) ==
  /\ pc = "wait" /\ AllExited(cfg, wk)
  /\ PersistAtEnd(E)
  /\ pc' = "returned"
  /\ UNCHANGED <<compVars, cfg, queue, closed, nextIdx, wk, results, cache, hist>>

\* StoreSlot that always writes the first slot
StoreSlotFirst(rs, i, r) == [rs EXCEPT ![1] = <<r>>]

\* the worker loop writes processRepo's result into the slot of its index
StoreSlot(rs, i, r) == [rs EXCEPT ![i] = <<r>>]

\* ------------------------------------------------------- pipeline actions

\* CleanupCalls with the cleanup called only on the path through runCodex
CleanupCallsAfterAgent(cleanup, r) ==
  IF cleanup /\ r.skipReason = "" THEN 1 ELSE 0

\* processRepo defers the cleanup prepareIndexWorkspace returned, if any:
\* it runs once when processRepo returns, at whichever return statement
CleanupCalls(cleanup, r) == IF cleanup THEN 1 ELSE 0

\* the cleanup that gives up after a failed git worktree remove and puts
\* the failure into the result
DeferredCleanupEscalates(r, rm, del) ==
  IF rm = "fail"
  THEN [res |-> [r EXCEPT !.error = "failed to remove worktree"],
        cmds |-> <<"git worktree remove">>, warnings |-> 1]
  ELSE [res |-> r, cmds |-> <<"git worktree remove", "os.RemoveAll">>,
        warnings |-> IF del = "fail" THEN 1 ELSE 0]

\* the cleanup prepareIndexWorkspace returns, run by processRepo's defer
\* after the result was built: git worktree remove, then os.RemoveAll,
\* each failure logged as a warning; res is the result processRepo returns
DeferredCleanup(r, rm, del) ==
  [res |-> r, cmds |-> <<"git worktree remove", "os.RemoveAll">>,
   warnings |-> (IF rm = "fail" THEN 1 ELSE 0) + (IF del = "fail" THEN 1 ELSE 0)]

\* processRepo returns: the deferred cleanup runs (when prepareIndexWorkspace
\* returned one), and the worker loop stores the result in its slot and
\* goes back to the queue
Finish(w, r, h, cleanup) ==
  LET i == wk[w].job
      cleaned == BumpBy(h, i, "cleanups", CleanupCalls(cleanup, r))
      stored == Bump(cleaned, i, "stored")
      after == IF cleanup
               THEN {DeferredCleanup(r, rm, del).res :
                       rm \in {"ok", "fail"}, del \in {"ok", "fail"}}
               ELSE {r}
  IN /\ \E x \in after : results' = StoreSlot(results, i, x)
     /\ hist' = [stored EXCEPT ![i].overtaken =
                   \E j \in DOMAIN results : j > i /\ results[j] # <<>>]
     /\ wk' = [wk EXCEPT ![w] = Idle]

\* processRepo up to the start of the agent process: skip check, default
\* branch, workspace, branch and revision, cache lookup, change set; in
\* dry-run mode runCodex returns at once and so does processRepo
Prepare(w, E) ==
  /\ Running /\ wk[w].phase = "prep"
  /\ \E db \in E.db, ws \in E.ws, cur \in E.cur, head \in E.head, diff \in E.diff :
       LET i == wk[w].job
           h == ProcessRepoHead(cfg, RepoPaths(cfg)[i], cache, db, ws, cur, head, diff)
           counted == BumpBy(Bump(hist, i, "started"), i, "wsCmds", Len(h.cmds))
           started == [counted EXCEPT ![i].stages = h.stages, ![i].dir = h.dir,
                                      ![i].env = h.env]
       IN IF h.returns
          THEN Finish(w, h.res, started, h.cleanup)
          ELSE IF cfg.dryRun
          THEN Finish(w, ProcessRepoTail(h.res, RunCodex(TRUE, "exit0")),
                      BumpBy(started, i, "agent", AgentStarts(TRUE)), h.cleanup)
          ELSE /\ results' = results
               /\ wk' = [wk EXCEPT ![w] =
                           [@ EXCEPT !.phase = "running", !.res = <<h.res>>,
                                     !.indexBranch = h.indexBranch,
                                     !.cleanup = h.cleanup,
                                     !.diffFiles = h.diffFiles,
                                     !.tree = h.tree]]
               /\ hist' = BumpBy(started, i, "agent", AgentStarts(FALSE))
  /\ UNCHANGED <<compVars, cfg, pc, queue, closed, nextIdx, cache, file>>

\* DeadlineScope with one deadline context shared by all invocations
DeadlineScopeShared(w, workers) ==
  {v \in DOMAIN workers : workers[v].phase = "running"}

\* runCodex derives the deadline context of an invocation from its own
\* call: the workers whose agent process the expiry terminates
DeadlineScope(w, workers) == {w}

\* the deadline of worker w's invocation expires: the other jobs hit by it
Expire(h, w, o) ==
  [i \in DOMAIN h |->
     IF /\ o = "timeout"
        /\ \E v \in DeadlineScope(w, wk) \ {w} : wk[v].job = i
     THEN [h[i] EXCEPT !.foreign = @ + 1] ELSE h[i]]

\* the agent process ends (or could not be started): runCodex returns and
\* processRepo records the outcome
AgentExit(w, E) ==
  /\ Running /\ wk[w].phase = "running"
  /\ \E o \in E.agent :
       LET rc == RunCodex(FALSE, o)
           r == ProcessRepoTail(wk[w].res[1], rc)
       IN IF ShouldUpdateCache(rc.err, cfg.dryRun, cfg.cache # "nil",
                               wk[w].indexBranch, r.indexedCommit)
          THEN /\ wk' = [wk EXCEPT ![w] = [@ EXCEPT !.phase = "update", !.res = <<r>>]]
               /\ hist' = Expire(hist, w, o)
               /\ UNCHANGED results
          ELSE Finish(w, r, Expire(hist, w, o), wk[w].cleanup)
  /\ UNCHANGED <<compVars, cfg, pc, queue, closed, nextIdx, cache, file>>

\* commitCache.Update, first half: the map is read
UpdateBegin(w) ==
  /\ Running /\ wk[w].phase = "update"
  /\ wk' = [wk EXCEPT ![w] = [@ EXCEPT !.phase = "updating", !.snap = DOMAIN cache]]
  /\ UNCHANGED <<compVars, cfg, pc, queue, closed, nextIdx, results, cache, file, hist>>

\* The maps on which a write of Update can build; snap is the set of slugs
\* the outer map held at the read. Update holds no lock: when the slug's
\* inner map was not there at the read, the outer map gets a new key, and a
\* key another worker inserted between the read and this write may or may
\* not survive. The inner maps are shared, so the surviving keys keep their
\* current values.
UpdateBases(snap, data, slug) ==
  IF slug \in snap THEN {data}
  ELSE {data, [k \in snap \cap DOMAIN data |-> data[k]]}

\* commitCache.Update, second half: the map is written
UpdateEnd(w) ==
  /\ Running /\ wk[w].phase = "updating"
  /\ LET r == wk[w].res[1]
     IN \E base \in UpdateBases(wk[w].snap, cache, r.slug) :
          cache' = Update(base, r.slug, wk[w].indexBranch, r.indexedCommit)
  /\ wk' = [wk EXCEPT ![w] = [@ EXCEPT !.phase = "persist", !.snap = {}]]
  /\ hist' = Bump(hist, wk[w].job, "updates")
  /\ UNCHANGED <<compVars, cfg, pc, queue, closed, nextIdx, results, file>>

\* AfterPersist that puts a failed save into the result
AfterPersistEscalates(r, outcome) ==
  IF outcome = "ok" THEN r
  ELSE [r EXCEPT !.error = "commit cache save failed", !.exitCode = <<1>>]

\* processRepo's result after persistCache: an error of the save is logged
\* as a warning and nothing else
AfterPersist(r, outcome) == r

\* persistCache after the update, then processRepo returns
Persist(w, E) ==
  /\ Running /\ wk[w].phase = "persist"
  /\ \E o \in E.save :
       /\ file' = Save(CachePath(cfg), cache, file, o)
       /\ Finish(w, AfterPersist(wk[w].res[1], IF CachePath(cfg) = "" THEN "ok" ELSE o),
                 hist, wk[w].cleanup)
  /\ UNCHANGED <<compVars, cfg, pc, queue, closed, nextIdx, cache>>

\* a worker is about to read or write commitCache.data
TouchesCache(w, E) ==
  \/ wk[w].phase \in {"update", "persist"}
  \/ /\ wk[w].phase = "prep"
     /\ \E db \in E.db, ws \in E.ws, cur \in E.cur, head \in E.head, diff \in E.diff :
          ProcessRepoHead(cfg, RepoPaths(cfg)[wk[w].job], cache,
                          db, ws, cur, head, diff).lookedUp

\* Unsynchronised access to the map while another worker is writing it: the
\* Go runtime may detect it and abort the process
RaceFault(w, E) ==
  /\ Running /\ TouchesCache(w, E)
  /\ \E v \in WorkerIds \ {w} : InUpdate(v)
  /\ pc' = "crashed"
  /\ UNCHANGED <<compVars, cfg, queue, closed, nextIdx, wk, results, cache, file, hist>>

Next ==
  \/ RunAllStart
  \/ SeqTake
  \/ SeqReturn(PoolEnv)
  \/ Enqueue
  \/ CloseQueue
  \/ WaitReturn(PoolEnv)
  \/ \E w \in WorkerIds : Dequeue(w)
  \/ \E w \in WorkerIds : WorkerExit(w)
  \/ \E w \in WorkerIds : Prepare(w, PoolEnv)
  \/ \E w \in WorkerIds : AgentExit(w, PoolEnv)
  \/ \E w \in WorkerIds : UpdateBegin(w)
  \/ \E w \in WorkerIds : UpdateEnd(w)
  \/ \E w \in WorkerIds : Persist(w, PoolEnv)
  \/ \E w \in WorkerIds : RaceFault(w, PoolEnv)

\* runs of runAll for every worker count
Spec == Init /\ [][Next]_vars

\* runs of runAll in which whatever can take a step does: goroutines that
\* can run are scheduled, git commands end, and an agent ends by itself or
\* at its deadline
SpecFair == Init /\ [][Next]_vars /\ WF_vars(Next)

\* Sequential runs (one worker), with every outcome of the collaborators
InitSeq == Init /\ cfg.workers = 1

NextSeq ==
  \/ RunAllStart
  \/ SeqTake
  \/ SeqReturn(FullEnv)
  \/ Prepare(0, FullEnv)
  \/ AgentExit(0, FullEnv)
  \/ UpdateBegin(0)
  \/ UpdateEnd(0)
  \/ Persist(0, FullEnv)

SpecSeq == InitSeq /\ [][NextSeq]_vars

\* ====================================================== the cache store
\* The commit cache and its file, called by MaxCallers callers at most.

MaxCallers == 2
MaxCalls == 2

\* A file's bytes are a sequence of tokens: braces, keys and values.
\* encoding/json writes the keys of a map in sorted order.
KeyOrder == <<"dev", "main", "repo-one", "repo-two">>
Rank(k) == CHOOSE i \in 1..Len(KeyOrder) : KeyOrder[i] = k
SortedKeys(S) ==
  CHOOSE q \in [1..Cardinality(S) -> S] :
    \A i, j \in 1..Cardinality(S) : i < j => Rank(q[i]) < Rank(q[j])

RECURSIVE Flatten(_)
Flatten(ss) == IF ss = <<>> THEN <<>> ELSE Head(ss) \o Flatten(Tail(ss))

\* json.MarshalIndent of one slug's branches
MarshalBranches(m) ==
  LET ks == SortedKeys(DOMAIN m)
  IN <<"{">> \o Flatten([i \in 1..Len(ks) |-> <<ks[i], m[ks[i]]>>]) \o <<"}">>

\* Marshal that writes the first slug only
MarshalFirstSlug(data) ==
  LET ks == SortedKeys(DOMAIN data)
  IN <<"{">>
     \o Flatten([i \in 1..(IF Len(ks) > 1 THEN 1 ELSE Len(ks)) |->
                   <<ks[i]>> \o MarshalBranches(data[ks[i]])])
     \o <<"}">>

\* json.MarshalIndent of commitCache.data
Marshal(data) ==
  LET ks == SortedKeys(DOMAIN data)
  IN <<"{">>
     \o Flatten([i \in 1..Len(ks) |-> <<ks[i]>> \o MarshalBranches(data[ks[i]])])
     \o <<"}">>

Braces == {"{", "}"}
ParseFail == [ok |-> FALSE, next |-> 0, val |-> EmptyMap]

\* json.Unmarshal, the object of one slug: key and value pairs up to "}"
RECURSIVE ParseBranches(_, _, _)
ParseBranches(t, i, acc) ==
  IF i > Len(t) THEN ParseFail
  ELSE IF t[i] = "}" THEN [ok |-> TRUE, next |-> i + 1, val |-> acc]
  ELSE IF t[i] = "{" \/ i + 1 > Len(t) THEN ParseFail
  ELSE IF t[i + 1] \in Braces THEN ParseFail
  ELSE ParseBranches(t, i + 2,
         [b \in DOMAIN acc \cup {t[i]} |-> IF b = t[i] THEN t[i + 1] ELSE acc[b]])

\* json.Unmarshal, the outer object: slugs with their objects up to the
\* final "}"; anything after it is an error
RECURSIVE ParseSlugs(_, _, _)
ParseSlugs(t, i, acc) ==
  IF i > Len(t) THEN ParseFail
  ELSE IF t[i] = "}" THEN [ok |-> i = Len(t), next |-> i + 1, val |-> acc]
  ELSE IF t[i] = "{" \/ i + 1 > Len(t) THEN ParseFail
  ELSE IF t[i + 1] # "{" THEN ParseFail
  ELSE LET inner == ParseBranches(t, i + 2, EmptyMap)
       IN IF ~inner.ok THEN ParseFail
          ELSE ParseSlugs(t, inner.next,
                 [k \in DOMAIN acc \cup {t[i]} |->
                    IF k = t[i] THEN inner.val ELSE acc[k]])

\* json.Unmarshal of a file's bytes into an empty map
Unmarshal(t) ==
  IF t = <<>> THEN ParseFail
  ELSE IF t[1] # "{" THEN ParseFail
  ELSE ParseSlugs(t, 2, EmptyMap)

\* A path holds no file (<<>>) or one file: its bytes and the callers that
\* have it open for writing.
NoFile == <<>>
FileOf(bytes) == <<[bytes |-> bytes, fds |-> {}]>>

\* loadCommitCache that takes a file it cannot decode for an empty cache
LoadCommitCacheLenient(path, f, outcome) ==
  IF path = "" THEN [ok |-> TRUE, data |-> EmptyMap, err |-> ""]
  ELSE IF f = NoFile THEN [ok |-> TRUE, data |-> EmptyMap, err |-> ""]
  ELSE IF outcome = "readfail"
       THEN [ok |-> FALSE, data |-> EmptyMap, err |-> "read commit cache"]
  ELSE IF Len(f[1].bytes) = 0 THEN [ok |-> TRUE, data |-> EmptyMap, err |-> ""]
  ELSE LET u == Unmarshal(f[1].bytes)
       IN IF u.ok THEN [ok |-> TRUE, data |-> u.val, err |-> ""]
          ELSE [ok |-> TRUE, data |-> EmptyMap, err |-> ""]

\* loadCommitCache on the file f at path; outcome "readfail" is a read error
\* other than a missing file
LoadCommitCache(path, f, outcome) ==
  IF path = "" THEN [ok |-> TRUE, data |-> EmptyMap, err |-> ""]
  ELSE IF f = NoFile THEN [ok |-> TRUE, data |-> EmptyMap, err |-> ""]
  ELSE IF outcome = "readfail"
       THEN [ok |-> FALSE, data |-> EmptyMap, err |-> "read commit cache"]
  ELSE IF Len(f[1].bytes) = 0 THEN [ok |-> TRUE, data |-> EmptyMap, err |-> ""]
  ELSE LET u == Unmarshal(f[1].bytes)
       IN IF u.ok THEN [ok |-> TRUE, data |-> u.val, err |-> ""]
          ELSE [ok |-> FALSE, data |-> EmptyMap, err |-> "decode commit cache"]

\* the variables of a whole run when the model is about one component
RunOff ==
  /\ cfg = [n |-> 0, workers |-> 0, dryRun |-> FALSE, skip |-> <<>>, cache |-> "nil"]
  /\ pc = "off"
  /\ queue = <<>>
  /\ closed = FALSE
  /\ nextIdx = 1
  /\ wk = [w \in WorkerIds |-> Off]
  /\ results = <<>>
  /\ cache = EmptyMap
  /\ file = <<>>
  /\ hist = <<>>

\* files that can be at the cache path at startup: none, an empty one, a
\* saved cache, a truncated document, something that is not a document
FoundFiles ==
  {NoFile, FileOf(<<>>)} \cup {FileOf(Marshal(d)) : d \in InitialCaches}
    \cup {FileOf(<<"{", "repo-one", "{", "main">>), FileOf(<<"garbage">>)}

StoreConfigs ==
  {c \in [path : {"", "cache.json"}, callers : 1..MaxCallers, found : FoundFiles] :
     /\ c.path = "" => c.found = NoFile
     /\ c.callers > 1 => (c.path # "" /\ c.found \in {NoFile, FileOf(Marshal(EmptyMap))})}

\* arguments of Update. A single caller passes any of them, the empty
\* string included; callers that share the cache are the workers of a run,
\* each with the slug, branch and commit of its own repository.
UpdateArgs(c) ==
  IF c.callers = 1
  THEN [slug : {"", RepoNames[1], RepoNames[2]}, branch : {"", "main"},
        commit : {""} \cup Commits]
  ELSE [slug : {RepoNames[1], RepoNames[2]}, branch : {"main"}, commit : {"c1"}]

\* what a caller remembers of its last Update (kept for a single caller)
LastCall(c, a, data) ==
  IF c.callers = 1
  THEN <<[slug |-> a.slug, branch |-> a.branch, commit |-> a.commit,
          before |-> data, saved |-> FALSE]>>
  ELSE <<>>

NewCaller == [at |-> "idle", doc |-> <<>>, calls |-> 0, last |-> <<>>, err |-> ""]

InitStore ==
  /\ ccfg \in StoreConfigs
  /\ cst = "boot"
  /\ mem = EmptyMap
  /\ disk = [final |-> ccfg.found, tmp |-> NoFile]
  /\ cl = [c \in 1..ccfg.callers |-> NewCaller]
  /\ RunOff /\ FeederOff /\ PureOff /\ OutOff

Callers == 1..ccfg.callers

\* startup: loadCommitCache; an error aborts the run
StoreLoad ==
  /\ cst = "boot"
  /\ \E o \in {"ok", "readfail"} :
       LET l == LoadCommitCache(ccfg.path, disk.final, o)
       IN IF l.ok THEN mem' = l.data /\ cst' = "ready"
          ELSE mem' = mem /\ cst' = "aborted"
  /\ UNCHANGED <<runVars, outVars, feederVars, pureVars, ccfg, disk, cl>>

\* a caller calls commitCache.Update
CallUpdate(c) ==
  /\ cst = "ready" /\ cl[c].at = "idle" /\ cl[c].calls < MaxCalls
  /\ \E a \in UpdateArgs(ccfg) :
       /\ mem' = Update(mem, a.slug, a.branch, a.commit)
       /\ cl' = [cl EXCEPT ![c] =
                   [@ EXCEPT !.calls = @ + 1, !.err = "",
                             !.last = LastCall(ccfg, a, mem)]]
  /\ UNCHANGED <<runVars, outVars, feederVars, pureVars, ccfg, cst, disk>>

\* the caller's last call, marked as saved
Saved(last) == IF last = <<>> THEN last ELSE <<[last[1] EXCEPT !.saved = TRUE]>>

\* commitCache.Save starts: nothing to do without a path, else the data is
\* encoded
SaveBegin(c) ==
  /\ cst = "ready" /\ cl[c].at = "idle"
  /\ IF ccfg.path = ""
     THEN cl' = [cl EXCEPT ![c] = [@ EXCEPT !.err = "", !.last = Saved(@)]]
     ELSE cl' = [cl EXCEPT ![c] = [@ EXCEPT !.at = "marshalled", !.err = "",
                                              !.doc = Marshal(mem)]]
  /\ UNCHANGED <<runVars, outVars, feederVars, pureVars, ccfg, cst, mem, disk>>

\* os.WriteFile opens the temporary path: created, or truncated when it is
\* there
OpenTrunc(f, c) ==
  IF f = NoFile THEN <<[bytes |-> <<>>, fds |-> {c}]>>
  ELSE <<[bytes |-> <<>>, fds |-> f[1].fds \cup {c}]>>

SaveOpen(c) ==
  /\ cst = "ready" /\ cl[c].at = "marshalled"
  /\ \E o \in {"ok", "fail"} :
       IF o = "ok"
       THEN /\ disk' = [disk EXCEPT !.tmp = OpenTrunc(@, c)]
            /\ cl' = [cl EXCEPT ![c] = [@ EXCEPT !.at = "open"]]
       ELSE /\ disk' = disk
            /\ cl' = [cl EXCEPT ![c] =
                        [@ EXCEPT !.at = "idle", !.err = "write commit cache"]]
  /\ UNCHANGED <<runVars, outVars, feederVars, pureVars, ccfg, cst, mem>>

\* a write goes to the file the caller has open, whatever path it is at now
WriteFd(f, c, bytes) ==
  IF f # NoFile /\ c \in f[1].fds THEN <<[f[1] EXCEPT !.bytes = bytes]>> ELSE f

CloseFd(f, c) ==
  IF f # NoFile /\ c \in f[1].fds THEN <<[f[1] EXCEPT !.fds = @ \ {c}]>> ELSE f

OnDisk(d, c, bytes, close) ==
  LET w == [final |-> WriteFd(d.final, c, bytes), tmp |-> WriteFd(d.tmp, c, bytes)]
  IN IF close THEN [final |-> CloseFd(w.final, c), tmp |-> CloseFd(w.tmp, c)] ELSE w

\* the first part of a document
Prefix(doc) == SubSeq(doc, 1, Len(doc) \div 2)

\* os.WriteFile writes the document in two parts and closes the file; a
\* failed write leaves what was written
SaveWrite(c) ==
  /\ cst = "ready" /\ cl[c].at \in {"open", "partial"}
  /\ \E o \in {"ok", "fail"} :
       IF o = "fail"
       THEN /\ disk' = [final |-> CloseFd(disk.final, c), tmp |-> CloseFd(disk.tmp, c)]
            /\ cl' = [cl EXCEPT ![c] =
                        [@ EXCEPT !.at = "idle", !.err = "write commit cache"]]
       ELSE IF cl[c].at = "open"
       THEN /\ disk' = OnDisk(disk, c, Prefix(cl[c].doc), FALSE)
            /\ cl' = [cl EXCEPT ![c] = [@ EXCEPT !.at = "partial"]]
       ELSE /\ disk' = OnDisk(disk, c, cl[c].doc, TRUE)
            /\ cl' = [cl EXCEPT ![c] = [@ EXCEPT !.at = "written"]]
  /\ UNCHANGED <<runVars, outVars, feederVars, pureVars, ccfg, cst, mem>>

\* os.Rename of the temporary path over the cache path
RenameOver(d) == [final |-> d.tmp, tmp |-> NoFile]

SaveRename(c) ==
  /\ cst = "ready" /\ cl[c].at = "written"
  /\ \E o \in {"ok", "fail"} :
       IF o = "ok" /\ disk.tmp # NoFile
       THEN /\ disk' = RenameOver(disk)
            /\ cl' = [cl EXCEPT ![c] =
                        [@ EXCEPT !.at = "idle", !.err = "", !.last = Saved(@)]]
       ELSE /\ disk' = disk
            /\ cl' = [cl EXCEPT ![c] =
                        [@ EXCEPT !.at = "idle", !.err = "persist commit cache"]]
  /\ UNCHANGED <<runVars, outVars, feederVars, pureVars, ccfg, cst, mem>>

\* the process dies while a caller is inside Save
StoreCrash ==
  /\ cst = "ready" /\ \E c \in Callers : cl[c].at # "idle"
  /\ cst' = "crashed"
  /\ UNCHANGED <<runVars, outVars, feederVars, pureVars, ccfg, mem, disk, cl>>

NextStore ==
  \/ StoreLoad
  \/ \E c \in Callers : CallUpdate(c)
  \/ \E c \in Callers : SaveBegin(c)
  \/ \E c \in Callers : SaveOpen(c)
  \/ \E c \in Callers : SaveWrite(c)
  \/ \E c \in Callers : SaveRename(c)
  \/ StoreCrash

\* the cache used by one caller
InitStoreOne == InitStore /\ ccfg.callers = 1
SpecStore == InitStoreOne /\ [][NextStore]_vars

\* the cache shared by several callers
InitStoreShared == InitStore /\ ccfg.callers > 1
SpecStoreShared == InitStoreShared /\ [][NextStore]_vars

\* ================================================ the keep-alive feeder
\* newlineFeeder on its own (read by one goroutine, closed by MaxClosers
\* callers at most) and inside one call of runCodex.

MaxClosers == 2
MaxCloseCalls == 2
MaxReads == 3

\* newNewlineFeeder
NewFeeder ==
  [made |-> TRUE, first |-> TRUE, done |-> FALSE, once |-> "new",
   closes |-> 0, panicked |-> FALSE, emitted |-> 0]

NoFeeder == [made |-> FALSE]

\* the reader between two calls of Read; last is what the last call returned
NewReader == [at |-> "idle", calls |-> 0, cur |-> <<>>, last |-> <<>>]

NewCloser == [at |-> "idle", calls |-> 0, returned |-> 0, err |-> "", blocked |-> FALSE]

\* the feeder with free callers: no invocation around it
InitFeeder ==
  /\ nf = NewFeeder
  /\ rd = NewReader
  /\ cs \in {[k \in 1..n |-> NewCloser] : n \in 1..MaxClosers}
  /\ inv = [pc |-> "free"]
  /\ RunOff /\ StoreOff /\ PureOff /\ OutOff

FeederLive == nf.made /\ ~nf.panicked

\* Read may be called: by anyone when the feeder is on its own; inside
\* runCodex by the goroutine that copies to the process's standard input
ReaderMay == inv.pc \in {"free", "running", "exited"}

\* a Close that runs only when cmd.Run returned no error
DeferRunsOnSuccess(outcome) == outcome = "exit0"

\* runCodex defers feeder.Close right after making the feeder: it runs
\* however cmd.Run ended
DeferRuns(outcome) == outcome \in {"exit0", "exitN", "startfail", "timeout"}

\* the deferred Close of runCodex is the only Close of an invocation
CloserMay(k) ==
  \/ inv.pc = "free"
  \/ inv.pc = "closing" /\ k = 1 /\ cs[k].calls = 0 /\ DeferRuns(inv.outcome)

\* buffer lengths passed to Read: io.Copy always passes a non-empty buffer
BufferLens == IF inv.pc = "free" THEN {0, 1} ELSE {1}

\* Read that waits for the interval on the first call too
ReadPathAlwaysWaits(first) == "wait"

\* Read, first branch: the first call skips the wait for the interval
ReadPath(first) == IF first THEN "check" ELSE "wait"

\* Read without the second look at the done channel
DoneSeenNever(done) == FALSE

\* Read, the select with a default case before the newline is written
DoneSeen(done) == done

\* what the reader does after Read returned n bytes and err: the copying
\* goroutine of an invocation ends at end of stream
AfterRead(err) ==
  IF inv.pc # "free" /\ err = "EOF" THEN "stopped" ELSE "idle"

\* Read returns
Returned(r, n, err, buf) ==
  [r EXCEPT !.at = AfterRead(err), !.cur = <<>>,
            !.last = <<[n |-> n, err |-> err, buf |-> buf,
                        len |-> r.cur[1].len, fresh |-> r.cur[1].fresh,
                        waited |-> r.cur[1].waited,
                        closedAtCall |-> r.cur[1].closedAtCall,
                        closedAtReturn |-> nf.done]>>]

\* Read is called with a buffer of some length
ReadCall ==
  /\ FeederLive /\ ReaderMay /\ rd.at = "idle" /\ rd.calls < MaxReads
  /\ \E len \in BufferLens :
       LET cur == [len |-> len, fresh |-> nf.first, waited |-> FALSE,
                   closedAtCall |-> nf.done]
           r == [rd EXCEPT !.calls = @ + 1, !.cur = <<cur>>]
       IN IF len = 0
          THEN /\ rd' = [Returned(r, 0, "", <<>>) EXCEPT !.at = "idle"]
               /\ nf' = nf
          ELSE /\ rd' = [r EXCEPT !.at = ReadPath(nf.first)]
               /\ nf' = [nf EXCEPT !.first = FALSE]
  /\ UNCHANGED <<runVars, outVars, storeVars, pureVars, cs, inv>>

\* Read in the select on done and the timer: done is closed
ReadSeesDone ==
  /\ FeederLive /\ rd.at = "wait" /\ nf.done
  /\ rd' = Returned(rd, 0, "EOF", <<>>)
  /\ UNCHANGED <<runVars, outVars, storeVars, pureVars, nf, cs, inv>>

\* Read in the select on done and the timer: the interval is over. The
\* timer is started by this call, so when done was closed before the call
\* the select finds done ready and the timer not
ReadTimer ==
  /\ FeederLive /\ rd.at = "wait" /\ ~rd.cur[1].closedAtCall
  /\ rd' = [rd EXCEPT !.at = "check", !.cur = <<[@[1] EXCEPT !.waited = TRUE]>>]
  /\ UNCHANGED <<runVars, outVars, storeVars, pureVars, nf, cs, inv>>

\* Read looks at done once more and writes the newline
ReadCheck ==
  /\ FeederLive /\ rd.at = "check"
  /\ IF DoneSeen(nf.done)
     THEN rd' = Returned(rd, 0, "EOF", <<>>) /\ nf' = nf
     ELSE /\ rd' = Returned(rd, 1, "", <<"\n">>)
          /\ nf' = [nf EXCEPT !.emitted = @ + 1]
  /\ UNCHANGED <<runVars, outVars, storeVars, pureVars, cs, inv>>

\* sync.Once that runs the function on every call
OnceEnterAlways(once) == "run"

\* sync.Once.Do: run the function, wait for the call that runs it, or skip
OnceEnter(once) ==
  IF once = "new" THEN "run" ELSE IF once = "running" THEN "wait" ELSE "skip"

\* Close is called
CloseCall(k) ==
  /\ FeederLive /\ CloserMay(k) /\ cs[k].at = "idle"
  /\ cs[k].calls < MaxCloseCalls
  /\ cs' = [cs EXCEPT ![k] = [@ EXCEPT !.at = "do", !.calls = @ + 1]]
  /\ UNCHANGED <<runVars, outVars, storeVars, pureVars, nf, rd, inv>>

\* Close enters once.Do
CloseDo(k) ==
  /\ FeederLive /\ cs[k].at = "do"
  /\ LET e == OnceEnter(nf.once)
     IN IF e = "run"
        THEN /\ nf' = [nf EXCEPT !.once = "running"]
             /\ cs' = [cs EXCEPT ![k] = [@ EXCEPT !.at = "closing"]]
        ELSE IF e = "wait"
        THEN /\ ~cs[k].blocked
             /\ nf' = nf
             /\ cs' = [cs EXCEPT ![k] = [@ EXCEPT !.blocked = TRUE]]
        ELSE /\ nf' = nf
             /\ cs' = [cs EXCEPT ![k] = [@ EXCEPT !.at = "ret"]]
  /\ UNCHANGED <<runVars, outVars, storeVars, pureVars, rd, inv>>

\* close(nf.done): closing a closed channel panics
CloseChan(k) ==
  /\ FeederLive /\ cs[k].at = "closing"
  /\ IF nf.done
     THEN nf' = [nf EXCEPT !.panicked = TRUE] /\ cs' = cs
     ELSE /\ nf' = [nf EXCEPT !.done = TRUE, !.once = "done", !.closes = @ + 1]
          /\ cs' = [cs EXCEPT ![k] = [@ EXCEPT !.at = "ret"]]
  /\ UNCHANGED <<runVars, outVars, storeVars, pureVars, rd, inv>>

\* Close returns nil
CloseReturn(k) ==
  /\ FeederLive /\ cs[k].at = "ret"
  /\ cs' = [cs EXCEPT ![k] = [@ EXCEPT !.at = "idle", !.returned = @ + 1, !.err = ""]]
  /\ UNCHANGED <<runVars, outVars, storeVars, pureVars, nf, rd, inv>>

NextFeeder ==
  \/ ReadCall
  \/ ReadSeesDone
  \/ ReadTimer
  \/ ReadCheck
  \/ \E k \in DOMAIN cs : CloseCall(k)
  \/ \E k \in DOMAIN cs : CloseDo(k)
  \/ \E k \in DOMAIN cs : CloseChan(k)
  \/ \E k \in DOMAIN cs : CloseReturn(k)

SpecFeeder == InitFeeder /\ [][NextFeeder]_vars

\* the feeder with time passing and calls that run on: a timer that was
\* started fires, and a Read that can go on does
SpecFeederFair ==
  /\ InitFeeder /\ [][NextFeeder]_vars
  /\ WF_vars(ReadSeesDone) /\ WF_vars(ReadTimer) /\ WF_vars(ReadCheck)

\* ----------------------------------------------------- one call of runCodex

\* the exit code exec.ExitError carries: that of a process that exited by
\* itself, -1 for a killed one, none when the process never started
ExitCodeOf(outcome) ==
  IF outcome = "exitN" THEN <<2>>
  ELSE IF outcome = "timeout" THEN <<0 - 1>>
  ELSE <<>>

\* codexTimeout: 0 (no deadline) or positive
Timeouts == {0, 1}

\* runCodex that derives a deadline for every timeout value
HasDeadlineAlways(timeout) == TRUE

\* runCodex derives a context with a deadline only for a positive timeout
HasDeadline(timeout) == timeout > 0

InitCodex ==
  /\ nf = NoFeeder
  /\ rd = NewReader
  /\ cs = <<NewCloser>>
  /\ inv \in [pc : {"entry"}, dryRun : BOOLEAN, timeout : Timeouts,
              outcome : {""}, expired : {FALSE}, res : {<<>>}]
  /\ RunOff /\ StoreOff /\ PureOff /\ OutOff

\* runCodex up to cmd.Run: a dry run returns, else the feeder is made
CodexEnter ==
  /\ inv.pc = "entry"
  /\ IF inv.dryRun
     THEN /\ inv' = [inv EXCEPT !.pc = "returned", !.res = <<RunCodex(TRUE, "")>>]
          /\ nf' = nf
     ELSE /\ inv' = [inv EXCEPT !.pc = "starting"]
          /\ nf' = NewFeeder
  /\ UNCHANGED <<runVars, outVars, storeVars, pureVars, rd, cs>>

\* cmd.Run starts the process, or fails to
CodexStart ==
  /\ inv.pc = "starting"
  /\ \E started \in BOOLEAN :
       inv' = IF started THEN [inv EXCEPT !.pc = "running"]
              ELSE [inv EXCEPT !.pc = "closing", !.outcome = "startfail"]
  /\ UNCHANGED <<runVars, outVars, storeVars, pureVars, nf, rd, cs>>

\* the process exits by itself, or is killed when the deadline passes
CodexProcExit ==
  /\ inv.pc = "running"
  /\ \E o \in {"exit0", "exitN", "timeout"} :
       /\ o = "timeout" => HasDeadline(inv.timeout)
       /\ inv' = [inv EXCEPT !.pc = "exited", !.outcome = o,
                             !.expired = (o = "timeout")]
  /\ UNCHANGED <<runVars, outVars, storeVars, pureVars, nf, rd, cs>>

\* the deadline passes after the process has exited by itself, while
\* cmd.Run is still waiting for the copy of the feeder to end
CodexDeadline ==
  /\ inv.pc = "exited" /\ HasDeadline(inv.timeout) /\ ~inv.expired
  /\ inv' = [inv EXCEPT !.expired = TRUE]
  /\ UNCHANGED <<runVars, outVars, storeVars, pureVars, nf, rd, cs>>

\* what runCodex makes of the way cmd.Run ended: with an error from
\* cmd.Run it asks the context whether the deadline has passed
Observed(outcome, expired) ==
  IF outcome = "exitN" /\ expired THEN "exitN late" ELSE outcome

\* the goroutine that copies the feeder to the process ends when its write
\* to the exited process fails
CopierStop ==
  /\ inv.pc = "exited" /\ rd.at = "idle"
  /\ rd' = [rd EXCEPT !.at = "stopped"]
  /\ UNCHANGED <<runVars, outVars, storeVars, pureVars, nf, cs, inv>>

\* cmd.Run returns once the process is gone and the copying has ended
CodexRunReturns ==
  /\ inv.pc = "exited" /\ rd.at = "stopped"
  /\ inv' = [inv EXCEPT !.pc = "closing"]
  /\ UNCHANGED <<runVars, outVars, storeVars, pureVars, nf, rd, cs>>

\* runCodex returns after its deferred Close
CodexReturn ==
  /\ inv.pc = "closing"
  /\ DeferRuns(inv.outcome) => cs[1].returned = 1
  /\ inv' = [inv EXCEPT !.pc = "returned",
                        !.res = <<RunCodex(FALSE, Observed(inv.outcome, inv.expired))>>]
  /\ UNCHANGED <<runVars, outVars, storeVars, pureVars, nf, rd, cs>>

NextCodex ==
  \/ CodexEnter
  \/ CodexStart
  \/ CodexProcExit
  \/ CodexDeadline
  \/ CopierStop
  \/ CodexRunReturns
  \/ CodexReturn
  \/ ReadCall
  \/ ReadTimer
  \/ ReadCheck
  \/ CloseCall(1)
  \/ CloseDo(1)
  \/ CloseChan(1)
  \/ CloseReturn(1)

SpecCodex == InitCodex /\ [][NextCodex]_vars

\* ================================================ functions of arguments
\* sanitizePathComponent, diffFilesSince, shouldSkipRepo and the worktree
\* path of prepareIndexWorkspace, each called once on arguments from
\* bounded sets.

MaxSanLen == 3
MaxDiffLen == 4
MaxPatLen == 3

\* the strings of at most n characters from a set
Strings(chars, n) == UNION {[1..k -> chars] : k \in 0..n}

\* the scan root of the calls of shouldSkipRepo and computeCollectionSlug
ScanRoot == <<"/", "r">>

\* inputs of sanitizePathComponent: letters, a digit, the three other
\* characters it keeps, a blank, and characters it replaces
SanitizeCalls ==
  LET SanChars == {"a", "Z", "7", "-", "_", ".", " ", "/", "*"}
  IN {[name |-> "sanitizePathComponent", called |-> FALSE, value |-> v] :
        v \in Strings(SanChars, MaxSanLen)}

\* inputs of diffFilesSince: no base commit or one, git diff failing or
\* printing a path character, blanks and line ends
DiffCalls ==
  LET DiffChars == {"f", " ", "\n", "\r"}
      BaseCommits == {"", "c0"}
  IN {[name |-> "diffFilesSince", called |-> FALSE, baseCommit |-> b,
       gitFails |-> fails, output |-> o] :
        b \in BaseCommits, fails \in BOOLEAN, o \in Strings(DiffChars, MaxDiffLen)}

\* inputs of shouldSkipRepo. The repositories: the root itself, a
\* directory in it, a nested one, and one with a double quote in its name;
\* processRepo computes the slug, then calls shouldSkipRepo with it. The
\* skip lists: every short pattern and longer ones that name the
\* repositories in their several forms, and lists of two patterns.
SkipCalls ==
  LET SkipRepos ==
        {ScanRoot,
         ScanRoot \o <<"/", "a">>,
         ScanRoot \o <<"/", "a", "/", "b">>,
         ScanRoot \o <<"/", "a", "\"", "b">>}
      PatChars == {"a", "b", "A", "/", ".", "_", " ", "\""}
      LongPatterns ==
        {<<"/", "r", "/", "a", "/", "b">>,
         <<"/", "R", "/", "A", "/", "B">>,
         <<"/", "r", "/", "a", "/", "b", "/">>,
         <<"/", "r", "/", "a">>,
         <<"/", "r">>,
         <<".", "/", "a", "/", "b">>,
         <<".", "/", "A", "/", "b">>,
         <<"a", "/", "b", "/">>,
         <<"a", "/", "/", "b">>,
         <<".", "/", "a", "_", "b">>,
         <<"A", "_", "B">>,
         <<"r", "o", "o", "t">>,
         <<"R", "O", "O", "T">>,
         <<".", "/", "r", "o", "o", "t">>,
         <<".", "/", "b">>,
         <<" ", "a", "/", "b", " ">>,
         <<"\t", "a", "/", "b">>,
         <<"a", "/", ".", "/", "b">>,
         <<"a", "/", ".", ".", "/", "a", "/", "b">>,
         <<".", ".", "/", "r", "/", "a">>,
         <<"a", "\"", "b">>,
         <<".", "/", "a", "\"", "b">>,
         <<"r", "/", "a", "/", "b">>}
      ListPatterns == LongPatterns \cup {<<>>, <<"a">>, <<"b">>}
      SkipPatternLists ==
        {<<p>> : p \in Strings(PatChars, MaxPatLen) \cup LongPatterns}
          \cup {<<p, q>> : p \in ListPatterns, q \in ListPatterns}
  IN {[name |-> "shouldSkipRepo", called |-> FALSE, rootDir |-> ScanRoot,
       repoDir |-> repo, slug |-> ComputeSlug(ScanRoot, repo), skip |-> skip] :
        repo \in SkipRepos, skip \in SkipPatternLists}

\* inputs of prepareIndexWorkspace: two jobs of one run, each with the
\* root-relative path of its repository and its default branch
WorktreeCalls ==
  LET RelRepos ==
        {<<"a", "/", "b">>,
         <<"a", "_", "b">>,
         <<"a", " ", "b">>,
         <<"a", "-", "b">>,
         <<"a">>,
         <<"b">>}
      BranchNames ==
        {<<"m">>,
         <<"b", "-", "m">>,
         <<"f", "/", "x">>,
         <<"f", "_", "x">>}
  IN {[name |-> "prepareIndexWorkspace", called |-> FALSE,
       repos |-> <<r1, r2>>, branches |-> <<b1, b2>>] :
        r1 \in RelRepos, r2 \in RelRepos, b1 \in BranchNames, b2 \in BranchNames}

\* runs of the deferred cleanup: each of its two steps works or fails, for
\* a job whose agent succeeded and for one whose agent failed
DeferredCleanupCalls ==
  LET ok == [NewResult(RepoDir(1), RepoNames[1], FALSE) EXCEPT
               !.defaultBranch = "main", !.checkoutOK = <<TRUE>>,
               !.pullOK = <<TRUE>>, !.indexedCommit = "c1", !.ran = TRUE]
      failed == [ok EXCEPT !.exitCode = <<2>>, !.error = "codex exec"]
      hit == [ok EXCEPT !.ran = FALSE, !.cachedCommit = "c1",
                        !.skipReason = "commit already indexed"]
  IN {[name |-> "cleanup", called |-> FALSE, res |-> r, rm |-> rm, del |-> del] :
        r \in {ok, failed, hit}, rm \in {"ok", "fail"}, del \in {"ok", "fail"}}

InitPure ==
  /\ fn \in SanitizeCalls \cup DiffCalls \cup SkipCalls \cup WorktreeCalls
              \cup DeferredCleanupCalls
  /\ ret = <<>>
  /\ RunOff /\ StoreOff /\ FeederOff /\ OutOff

CallSanitize ==
  /\ fn.name = "sanitizePathComponent" /\ ~fn.called
  /\ fn' = [fn EXCEPT !.called = TRUE]
  /\ ret' = SanitizePathComponent(fn.value)
  /\ UNCHANGED <<runVars, outVars, storeVars, feederVars>>

CallDiffFilesSince ==
  /\ fn.name = "diffFilesSince" /\ ~fn.called
  /\ fn' = [fn EXCEPT !.called = TRUE]
  /\ ret' = DiffNameOnly(fn.baseCommit, fn.gitFails, fn.output)
  /\ UNCHANGED <<runVars, outVars, storeVars, feederVars>>

CallShouldSkip ==
  /\ fn.name = "shouldSkipRepo" /\ ~fn.called
  /\ fn' = [fn EXCEPT !.called = TRUE]
  /\ ret' = ShouldSkip(fn.skip, fn.rootDir, fn.repoDir, fn.slug)
  /\ UNCHANGED <<runVars, outVars, storeVars, feederVars>>

\* each of the two jobs computes its slug and its worktree path
CallWorktreePaths ==
  /\ fn.name = "prepareIndexWorkspace" /\ ~fn.called
  /\ fn' = [fn EXCEPT !.called = TRUE]
  /\ ret' = [k \in 1..2 |->
               WorktreePath(ComputeSlug(ScanRoot, ScanRoot \o <<"/">> \o fn.repos[k]),
                            fn.branches[k])]
  /\ UNCHANGED <<runVars, outVars, storeVars, feederVars>>

\* processRepo returns and its deferred cleanup runs
CallCleanup ==
  /\ fn.name = "cleanup" /\ ~fn.called
  /\ fn' = [fn EXCEPT !.called = TRUE]
  /\ ret' = DeferredCleanup(fn.res, fn.rm, fn.del)
  /\ UNCHANGED <<runVars, outVars, storeVars, feederVars>>

NextPure ==
  \/ CallCleanup
  \/ CallSanitize
  \/ CallDiffFilesSince
  \/ CallShouldSkip
  \/ CallWorktreePaths

SpecPure == InitPure /\ [][NextPure]_vars

\* ------------------------------------------------------- output stream

\* workers that write to the shared stream, Write calls per worker, and
\* the parts in which the data of one call reaches the stream
MaxWriters == 2
MaxWrites == 3
MaxParts == 2

WriterIds == 1..MaxWriters

\* the decorator is put around the stream when more than one worker runs
Wrapped(workers) == workers > 1

\* sync.Mutex: Lock goes on when nobody holds the mutex
LockFreeAlways(mu) == TRUE
LockFree(mu) == mu = 0

WriterIdle == [at |-> "idle", calls |-> 0, part |-> 0]

InitOut ==
  /\ \E n \in WriterIds :
       lw = [workers |-> n, mu |-> 0, stream |-> <<>>,
             w |-> [i \in 1..n |-> WriterIdle]]
  /\ RunOff /\ StoreOff /\ FeederOff /\ PureOff

\* a worker calls Write with one piece of output
WriteCall(i) ==
  /\ lw.workers > 0 /\ i \in 1..lw.workers
  /\ lw.w[i].at = "idle" /\ lw.w[i].calls < MaxWrites
  /\ lw' = [lw EXCEPT !.w[i].at = IF Wrapped(lw.workers) THEN "lock" ELSE "inner",
                      !.w[i].calls = @ + 1, !.w[i].part = 0]
  /\ UNCHANGED <<runVars, storeVars, feederVars, pureVars>>

\* the decorator's Write: mu.Lock()
WriteLock(i) ==
  /\ lw.workers > 0 /\ i \in 1..lw.workers
  /\ lw.w[i].at = "lock" /\ LockFree(lw.mu)
  /\ lw' = [lw EXCEPT !.mu = i, !.w[i].at = "inner"]
  /\ UNCHANGED <<runVars, storeVars, feederVars, pureVars>>

\* the Write of the stream itself: the next part of the data reaches it
WriteInner(i) ==
  /\ lw.workers > 0 /\ i \in 1..lw.workers
  /\ lw.w[i].at = "inner" /\ lw.w[i].part < MaxParts
  /\ lw' = [lw EXCEPT !.w[i].part = @ + 1,
                      !.stream = Append(@, [by |-> i, call |-> lw.w[i].calls,
                                            part |-> lw.w[i].part + 1])]
  /\ UNCHANGED <<runVars, storeVars, feederVars, pureVars>>

\* the Write of the stream has returned: mu.Unlock() (deferred) and return
WriteReturn(i) ==
  /\ lw.workers > 0 /\ i \in 1..lw.workers
  /\ lw.w[i].at = "inner" /\ lw.w[i].part = MaxParts
  /\ lw' = [lw EXCEPT !.w[i].at = "idle",
                      !.mu = IF Wrapped(lw.workers) THEN 0 ELSE @]
  /\ UNCHANGED <<runVars, storeVars, feederVars, pureVars>>

NextOut ==
  \/ \E i \in WriterIds : WriteCall(i)
  \/ \E i \in WriterIds : WriteLock(i)
  \/ \E i \in WriterIds : WriteInner(i)
  \/ \E i \in WriterIds : WriteReturn(i)

SpecOut == InitOut /\ [][NextOut]_vars

\* ================================================================ claims

\* the workers that are inside processRepo
InProgress == {w \in WorkerIds : wk[w].phase \in {"prep", "running", "update", "updating", "persist"}}

Stored(i) == results[i] # <<>>
Result(i) == results[i][1]

\* ------------------------------------------------------------------- C1
\* C1: when runAll has returned there is exactly one result per input path,
\* and the result at position i is the result of the repository at input
\* position i, whatever the worker count and the order of completion.
C1_OneResultPerInputInOrder ==
  pc = "returned" =>
    /\ DOMAIN results = 1..cfg.n
    /\ \A i \in 1..cfg.n :
         /\ Stored(i)
         /\ Result(i).path = RepoPaths(cfg)[i]
         /\ Result(i).slug = ComputeCollectionSlug(RootDir, RepoPaths(cfg)[i])

\* a run of several workers has returned, and the first repository's
\* result was stored after a later one's
C1_Witness ==
  /\ pc = "returned" /\ cfg.workers >= 2 /\ cfg.n >= 2
  /\ hist[1].overtaken

\* ------------------------------------------------------------------- C2
\* C2: every slot of the results collection is written exactly once (never
\* twice, and once by the time runAll returns), no two workers hold the same
\* index at the same time, and a stored result is never changed.
C2_SlotsWrittenOnce ==
  /\ [](/\ \A i \in 1..cfg.n : hist[i].stored = (IF Stored(i) THEN 1 ELSE 0)
        /\ pc = "returned" => \A i \in 1..cfg.n : hist[i].stored = 1
        /\ \A w, v \in InProgress : w # v => wk[w].job # wk[v].job)
  /\ [][\A i \in 1..cfg.n : Stored(i) => results'[i] = results[i]]_vars

\* two workers have each stored a result
C2_Witness ==
  /\ cfg.workers >= 2 /\ cfg.n >= 2
  /\ Stored(1) /\ Stored(2) /\ Result(1) # Result(2)
  /\ pc = "returned"

\* ------------------------------------------------------------------- C3
\* C3: within one run each repository is taken from the queue at most once,
\* its pipeline is started at most once, and the agent is started at most
\* once for it.
C3_ProcessedAtMostOnce ==
  \A i \in 1..cfg.n :
    /\ hist[i].taken <= 1
    /\ hist[i].started <= 1
    /\ hist[i].agent <= 1
    /\ Cardinality({w \in InProgress : wk[w].job = i}) <= 1

\* the agent failed for a repository of a finished run, and was started once
C3_Witness ==
  /\ pc = "returned"
  /\ \E i \in 1..cfg.n :
       hist[i].agent = 1 /\ hist[i].started = 1 /\ Result(i).error # ""

\* ------------------------------------------------------------------- C4
\* C4: at the moment runAll returns no job is in progress, the queue is
\* drained and every result slot is filled.
C4_ReturnsWhenAllDone ==
  pc = "returned" =>
    /\ InProgress = {}
    /\ queue = <<>>
    /\ nextIdx > cfg.n
    /\ \A w \in Pool(cfg) : wk[w].phase \in {"idle", "exited"}
    /\ \A i \in 1..cfg.n : Stored(i)

\* runAll has returned from a run in which a pool of workers was used
C4_Witness ==
  /\ pc = "returned" /\ closed /\ cfg.n >= 2
  /\ \A w \in 1..cfg.workers : wk[w].phase = "exited"
  /\ \A i \in 1..cfg.n : hist[i].taken = 1

\* ------------------------------------------------------------------- C5
\* C5: when workerCount <= 1 (zero and negative included) or there is one
\* repository, at most one job is in progress at any time and a repository's
\* pipeline starts only after the results of all earlier ones are stored.
C5_SequentialForOneWorker ==
  (cfg.workers <= 1 \/ cfg.n = 1) =>
    /\ Cardinality(InProgress) <= 1
    /\ \A w \in InProgress : \A j \in 1..(wk[w].job - 1) : Stored(j)

\* with a worker count of zero or less, the agent runs for the second
\* repository
C5_Witness ==
  /\ cfg.workers <= 0 /\ cfg.n >= 2
  /\ \E w \in InProgress : wk[w].job = 2 /\ wk[w].phase = "running"

\* ------------------------------------------------------------------- C6
\* the worker count in effect: a count of zero or less is treated as one
EffectiveWorkers(c) == IF c.workers < 1 THEN 1 ELSE c.workers

C7_CacheWrittenOnlyAfterSuccess ==
  /\ [](\A i \in 1..cfg.n :
          hist[i].updates > 0 =>
            /\ ~cfg.dryRun /\ hist[i].agent = 1
            /\ Stored(i) => /\ Result(i).ran /\ Result(i).error = ""
                            /\ Result(i).exitCode = <<>>
                            /\ Result(i).skipReason = "" /\ ~Result(i).dryRun)
  /\ [][cache' # cache =>
          \E w \in InProgress :
            /\ wk[w].phase = "updating"
            /\ hist'[wk[w].job].updates = hist[wk[w].job].updates + 1
            /\ wk[w].res[1].ran /\ wk[w].res[1].error = ""
            /\ wk[w].res[1].exitCode = <<>> /\ wk[w].res[1].skipReason = ""
            /\ ~wk[w].res[1].dryRun]_vars

\* one job has written the cache, and the job of another repository, whose
\* agent failed, has not
C7_Witness ==
  \E i, j \in 1..cfg.n :
    /\ hist[i].updates = 1
    /\ Stored(j) /\ Result(j).ran /\ Result(j).error # "" /\ hist[j].updates = 0

\* ------------------------------------------------------------------- C8
\* C8: a job whose cache lookup returned the freshly detected revision
\* reports a skip reason, does not start the agent, and does not write the
\* cache: the entry it found is still there.
C8_CacheHitSkips ==
  /\ \A i \in 1..cfg.n :
       (Stored(i) /\ Result(i).cachedCommit # ""
                  /\ Result(i).cachedCommit = Result(i).indexedCommit) =>
         /\ Result(i).skipReason # ""
         /\ ~Result(i).ran /\ Result(i).exitCode = <<>>
         /\ hist[i].agent = 0 /\ hist[i].updates = 0
         /\ LastCommit(cache, Result(i).slug, Result(i).defaultBranch)
              = <<Result(i).cachedCommit, TRUE>>
  /\ \A w \in InProgress :
       wk[w].res # <<>> =>
         \/ wk[w].res[1].cachedCommit = ""
         \/ wk[w].res[1].cachedCommit # wk[w].res[1].indexedCommit

\* a job was skipped because its revision is the cached one, while the job
\* of another repository has written the cache
C8_Witness ==
  \E i, j \in 1..cfg.n :
    /\ Stored(i) /\ Result(i).cachedCommit = Result(i).indexedCommit
    /\ Result(i).cachedCommit # "" /\ Result(i).skipReason # ""
    /\ hist[j].updates = 1

\* ------------------------------------------------------------------- C9
\* C9: after a job that was not a dry run, whose agent exited 0 and whose
\* branch and revision were detected, the cache maps the job's slug and
\* branch to the job's indexed revision.
C9_CacheHoldsIndexedRevision ==
  \A i \in 1..cfg.n :
    (/\ Stored(i) /\ cfg.cache # "nil" /\ ~Result(i).dryRun
     /\ Result(i).ran /\ Result(i).error = "" /\ Result(i).exitCode = <<>>
     /\ Result(i).defaultBranch # "" /\ Result(i).indexedCommit # "") =>
      LastCommit(cache, Result(i).slug, Result(i).defaultBranch)
        = <<Result(i).indexedCommit, TRUE>>

\* ------------------------------------------------------------------ C10
\* C10: accesses of the shared cache are serialised: no two workers are
\* inside Update at the same time, the process is never aborted for a
\* concurrent map access, and the entry of a job that has updated the cache
\* is present.
C10_CacheAccessSerialised ==
  /\ Cardinality({w \in WorkerIds : InUpdate(w)}) <= 1
  /\ pc # "crashed"
  /\ \A i \in 1..cfg.n :
       hist[i].updates > 0 =>
         ComputeCollectionSlug(RootDir, RepoPaths(cfg)[i]) \in DOMAIN cache

\* ------------------------------------------------------------------ C11
\* a file that is absent, or whose bytes are exactly a document that
\* Marshal writes
CompleteDocument(f) ==
  \/ f = NoFile
  \/ /\ Unmarshal(f[1].bytes).ok
     /\ f[1].bytes = Marshal(Unmarshal(f[1].bytes).val)

\* C11: at every point, also after a crash inside Save and with several
\* callers inside Save, the file at the cache path is the file found at
\* startup or a complete document.
C11_CacheFileNeverPartial ==
  \/ disk.final # NoFile /\ ccfg.found # NoFile
       /\ disk.final[1].bytes = ccfg.found[1].bytes
  \/ CompleteDocument(disk.final)

\* ------------------------------------------------------------------ C12
\* the file at the cache path, loaded again
Reloaded == LoadCommitCache(ccfg.path, disk.final, "ok")

\* C12: after Update(s, b, r) with non-empty arguments and a Save that
\* returned nil, loading the file again gives (r, true) for (s, b) and every
\* other entry that was there before the update.
C12_SaveLoadRoundTrip ==
  \A c \in DOMAIN cl :
    (/\ ccfg.path # "" /\ cl[c].last # <<>> /\ cl[c].last[1].saved
     /\ cl[c].last[1].slug # "" /\ cl[c].last[1].branch # ""
     /\ cl[c].last[1].commit # "") =>
      LET k == cl[c].last[1]
      IN /\ Reloaded.ok
         /\ LastCommit(Reloaded.data, k.slug, k.branch) = <<k.commit, TRUE>>
         /\ \A s \in DOMAIN k.before : \A b \in DOMAIN k.before[s] :
              <<s, b>> # <<k.slug, k.branch>> =>
                LastCommit(Reloaded.data, s, b) = <<k.before[s][b], TRUE>>

\* an entry was added to a cache that held another slug, and saved over a
\* file with other content
C12_Witness ==
  \E c \in DOMAIN cl :
    /\ ccfg.path # "" /\ cl[c].last # <<>> /\ cl[c].last[1].saved
    /\ cl[c].last[1].slug = RepoNames[2] /\ cl[c].last[1].commit # ""
    /\ cl[c].last[1].branch # ""
    /\ RepoNames[1] \in DOMAIN cl[c].last[1].before
    /\ disk.final # ccfg.found

\* ------------------------------------------------------------------ C13
\* C13: Update with an empty slug, branch or commit leaves the map as it
\* was; no empty key exists at either level.
C13_UpdateIgnoresEmptyArguments ==
  /\ \A c \in DOMAIN cl :
       (/\ ccfg.callers = 1 /\ cl[c].last # <<>>
        /\ \/ cl[c].last[1].slug = "" \/ cl[c].last[1].branch = ""
           \/ cl[c].last[1].commit = "") =>
         mem = cl[c].last[1].before
  /\ "" \notin DOMAIN mem
  /\ \A s \in DOMAIN mem : mem[s] # EmptyMap /\ "" \notin DOMAIN mem[s]

\* Update was called with a slug the cache does not hold and an empty commit
C13_Witness ==
  \E c \in DOMAIN cl :
    /\ cl[c].last # <<>> /\ cl[c].last[1].slug = RepoNames[2]
    /\ cl[c].last[1].branch = "main" /\ cl[c].last[1].commit = ""
    /\ RepoNames[2] \notin DOMAIN cl[c].last[1].before
    /\ cl[c].last[1].before # EmptyMap

\* ------------------------------------------------------------------ C14
\* a file that is there, is not empty and is not a document
Malformed(f) == f # NoFile /\ f[1].bytes # <<>> /\ ~Unmarshal(f[1].bytes).ok

\* no caller has called the cache yet
Untouched == \A c \in DOMAIN cl : cl[c].calls = 0 /\ cl[c].at = "idle"

C15_FreshReadEmitsAtOnce ==
  /\ nf.made /\ nf.first => nf.emitted = 0
  /\ (rd.at # "off" /\ rd.cur # <<>> /\ rd.cur[1].fresh /\ rd.cur[1].len > 0) =>
       (rd.at = "check" /\ ~rd.cur[1].waited /\ ~nf.first)
  /\ (rd.at # "off" /\ rd.last # <<>> /\ rd.last[1].fresh /\ rd.last[1].len > 0
        /\ ~rd.last[1].closedAtReturn) =>
       /\ rd.last[1].n = 1 /\ rd.last[1].buf = <<"\n">> /\ rd.last[1].err = ""
       /\ ~rd.last[1].waited
       /\ ~nf.first

\* the first Read with a non-empty buffer, made after a Read with an empty
\* one, has returned the newline
C15_Witness ==
  /\ rd.at = "idle" /\ rd.calls = 2 /\ rd.last # <<>>
  /\ rd.last[1].fresh /\ rd.last[1].n = 1 /\ ~nf.first /\ ~nf.done

\* ------------------------------------------------------------------ C16
\* C16 as stated: a Read called after the feeder was closed returns zero
\* bytes and end of stream.
C16_EveryReadAfterCloseIsEOF ==
  (rd.at # "off" /\ rd.last # <<>> /\ rd.last[1].closedAtCall) =>
    (rd.last[1].n = 0 /\ rd.last[1].err = "EOF")

\* C16, amended: Closed is terminal and no newline is written once the
\* feeder is closed; a Read with a non-empty buffer called after the close
\* returns zero bytes and end of stream, from Fresh as from Armed, while a
\* Read with an empty buffer returns zero bytes and no error.
C16_ClosedIsTerminal ==
  /\ [](/\ (rd.at # "off" /\ rd.last # <<>> /\ rd.last[1].closedAtCall) =>
             /\ rd.last[1].n = 0 /\ rd.last[1].buf = <<>>
             /\ rd.last[1].err = (IF rd.last[1].len > 0 THEN "EOF" ELSE "")
        /\ (rd.at # "off" /\ rd.last # <<>> /\ rd.last[1].n > 0) =>
             ~rd.last[1].closedAtReturn)
  /\ [][(nf.made /\ nf.done) => (nf'.done /\ nf'.emitted = nf.emitted)]_vars

\* the feeder was closed while Fresh, and the first Read returned end of
\* stream
C16_Witness ==
  /\ nf.made /\ nf.done /\ rd.at = "idle" /\ rd.last # <<>>
  /\ rd.last[1].fresh /\ rd.last[1].closedAtCall /\ rd.last[1].len > 0
  /\ rd.last[1].err = "EOF" /\ nf.emitted = 0

\* ------------------------------------------------------------------ C17
\* C17: however often and however concurrently Close is called, it never
\* panics, returns nil, and closes the done channel exactly once: after the
\* first return the feeder is in the state one call leaves it in.
C17_CloseIdempotent ==
  nf.made =>
    /\ ~nf.panicked
    /\ nf.closes <= 1
    /\ nf.done <=> nf.closes = 1
    /\ \A k \in DOMAIN cs :
         /\ cs[k].err = ""
         /\ cs[k].returned > 0 => (nf.done /\ nf.once = "done" /\ nf.closes = 1)

\* Close has returned three times, one call had to wait for another that
\* was closing the channel, and a Read that was waiting for the interval
\* has returned end of stream
C17_Witness ==
  /\ nf.made /\ DOMAIN cs = 1..2
  /\ cs[1].returned + cs[2].returned >= 3
  /\ \E k \in DOMAIN cs : cs[k].blocked
  /\ rd.last # <<>> /\ ~rd.last[1].closedAtCall /\ rd.last[1].err = "EOF"
  /\ ~rd.last[1].fresh

\* ------------------------------------------------------------------ C18
\* C18: when runCodex has returned, the feeder it made is closed, however
\* the agent ended (exit 0, non-zero exit, start failure, timeout); a dry
\* run makes no feeder, every other call makes one.
C18_FeederClosedOnReturn ==
  /\ (inv.pc # "off" /\ inv.pc # "free") => (nf.made <=> (~inv.dryRun /\ inv.pc # "entry"))
  /\ (inv.pc = "returned" /\ nf.made) =>
       /\ nf.done /\ nf.closes = 1 /\ ~nf.panicked
       /\ cs[1].returned = 1 /\ cs[1].at = "idle"

\* runCodex has returned after a timeout, the feeder having written two
\* newlines, and the feeder is closed
C18_Witness ==
  /\ inv.pc = "returned" /\ inv.outcome = "timeout"
  /\ nf.made /\ nf.done /\ nf.emitted >= 2

C19_DryRunStartsNothing ==
  cfg.dryRun =>
    /\ \A b \in FullEnv.db, o \in FullEnv.ws :
         /\ PrepareIndexWorkspace(b, TRUE, o)
              = [dir |-> "repo", checkoutOK |-> <<>>, pullOK |-> <<>>, cleanup |-> FALSE]
         /\ WorkspaceCommands(b, TRUE, o) = <<>>
    /\ RunCodex(TRUE, "exit0") = [ran |-> FALSE, exitCode |-> <<>>, err |-> ""]
    /\ \A w \in DOMAIN wk : wk[w].phase \notin {"running", "update", "updating", "persist"}
    /\ \A i \in 1..cfg.n :
         /\ hist[i].wsCmds = 0 /\ hist[i].agent = 0
         /\ hist[i].cleanups = 0 /\ hist[i].updates = 0
         /\ Stored(i) =>
              /\ Result(i).dryRun /\ ~Result(i).ran
              /\ Result(i).checkoutOK = <<>> /\ Result(i).pullOK = <<>>
              /\ Result(i).exitCode = <<>> /\ Result(i).error = ""

\* a dry run over two repositories has returned; the pipeline of one with a
\* default branch and a revision that is not in the cache went as far as
\* runCodex
C19_Witness ==
  /\ cfg.dryRun /\ pc = "returned" /\ cfg.n >= 2
  /\ \E i \in 1..cfg.n :
       /\ Stored(i) /\ hist[i].started = 1
       /\ Result(i).skipReason = "" /\ Result(i).defaultBranch = "main"
       /\ Result(i).indexedCommit # ""

\* the stages a sequence names
StageSet(stages) == {stages[k] : k \in 1..Len(stages)}

\* the job at input position i is excluded by a pattern of the skip list
Excluded(i) ==
  \E k \in 1..Len(cfg.skip) :
    cfg.skip[k] = ComputeCollectionSlug(RootDir, RepoPaths(cfg)[i])

\* ------------------------------------------------------------------ C22
\* C22: the expiry of one invocation's deadline never terminates another
\* job's agent, a step of one job changes no other worker's position, and
\* when the run has returned every job has run its pipeline and stored its
\* result whatever happened to the others: every job that is not skipped
\* has started its own agent once.
C22_NoCrossJobCancellation ==
  /\ [](/\ \A i \in 1..cfg.n : hist[i].foreign = 0
        /\ pc = "returned" =>
             \A i \in 1..cfg.n :
               /\ Stored(i) /\ hist[i].started = 1
               /\ (Result(i).skipReason = "" /\ ~cfg.dryRun) =>
                    /\ hist[i].agent = 1 /\ Result(i).ran
                    /\ "agent" \in StageSet(hist[i].stages))
  /\ [][pc # "start" => Cardinality({v \in WorkerIds : wk'[v] # wk[v]}) <= 1]_vars

\* two workers: the second repository's agent timed out, and the first
\* repository's job, still in progress then, ran its agent to exit code 0
C22_Witness ==
  /\ pc = "returned" /\ cfg.workers >= 2 /\ cfg.n >= 2
  /\ Result(2).error = "codex exec deadline exceeded"
  /\ hist[1].overtaken /\ Result(1).ran /\ Result(1).error = ""

\* ------------------------------------------------------------------ C23
\* C23: a job that got an isolated worktree calls its cleanup exactly once,
\* not before it concludes and not after its result is stored, whether it
\* ends with a cache hit, an agent success, an agent failure or a timeout;
\* a job without a worktree calls no cleanup.
C23_CleanupExactlyOnce ==
  /\ \A i \in 1..cfg.n :
       /\ hist[i].cleanups <= 1
       /\ ~Stored(i) => hist[i].cleanups = 0
       /\ Stored(i) =>
            /\ hist[i].cleanups = (IF Result(i).checkoutOK = <<TRUE>> THEN 1 ELSE 0)
            /\ Result(i).checkoutOK = <<TRUE>> <=> hist[i].dir = "worktree"
  /\ \A w \in WorkerIds :
       wk[w].phase \in {"running", "update", "updating", "persist"} =>
         (wk[w].cleanup <=> hist[wk[w].job].dir = "worktree")

\* both jobs got a worktree: one ended with a cache hit, the other with an
\* agent timeout, and each cleaned up once
C23_Witness ==
  /\ pc = "returned" /\ cfg.n >= 2
  /\ Result(1).skipReason # "" /\ hist[1].dir = "worktree" /\ hist[1].cleanups = 1
  /\ Result(2).error = "codex exec deadline exceeded"
  /\ hist[2].dir = "worktree" /\ hist[2].cleanups = 1

\* ------------------------------------------------------------------ C24
\* C24: after a failed fetch no worktree is added and the job works in the
\* repository with (checkout-ok, pull-ok) = (false, false); after a failed
\* worktree add it works in the repository with (false, true); only after
\* both succeeded it works in the worktree, with (true, true) and a
\* cleanup. In each case the job goes on to the agent unless the revision
\* is cached.
C24_IsolationDegrades ==
  \A i \in 1..cfg.n :
    (Stored(i) /\ Result(i).checkoutOK # <<>>) =>
      LET r == Result(i)
          h == hist[i]
      IN /\ <<r.checkoutOK[1], r.pullOK[1]>> \in
              {<<FALSE, FALSE>>, <<FALSE, TRUE>>, <<TRUE, TRUE>>}
         /\ Len(WorkspaceCommands("main", FALSE, "ok")) = 4
         /\ ~r.pullOK[1] => (h.wsCmds < 4 /\ h.dir = "repo" /\ h.cleanups = 0)
         /\ (~r.checkoutOK[1] /\ r.pullOK[1]) =>
              (h.wsCmds = 4 /\ h.dir = "repo" /\ h.cleanups = 0)
         /\ r.checkoutOK[1] => (h.wsCmds = 4 /\ h.dir = "worktree" /\ h.cleanups = 1)
         /\ r.skipReason = "" => (h.agent = 1 /\ r.ran)

\* the fetch failed for one repository and the worktree add for the other,
\* and both jobs ran the agent
C24_Witness ==
  /\ pc = "returned" /\ cfg.n >= 2
  /\ Result(1).checkoutOK = <<FALSE>> /\ Result(1).pullOK = <<FALSE>>
  /\ hist[1].wsCmds = 3 /\ Result(1).ran
  /\ Result(2).checkoutOK = <<FALSE>> /\ Result(2).pullOK = <<TRUE>>
  /\ Result(2).ran

\* ------------------------------------------------------------------ C26
\* C26: for a repository that a skip pattern excludes only the skip check
\* runs: the result carries the exclusion reason and nothing else, and no
\* branch detection, workspace command, cache lookup, change set, agent
\* start, cache update or cleanup happens for it.
C26_SkipMatchShortCircuits ==
  /\ \A w \in WorkerIds :
       wk[w].phase \in {"running", "update", "updating", "persist"} =>
         ~Excluded(wk[w].job)
  /\ \A i \in 1..cfg.n :
       (Excluded(i) /\ Stored(i)) =>
         /\ Result(i) = [NewResult(RepoPaths(cfg)[i], Result(i).slug, cfg.dryRun)
                           EXCEPT !.skipReason = "repo excluded via --skip-repo"]
         /\ hist[i].stages = <<"skip">>
         /\ hist[i].wsCmds = 0 /\ hist[i].agent = 0 /\ hist[i].updates = 0
         /\ hist[i].cleanups = 0 /\ hist[i].env = {} /\ hist[i].dir = ""

\* the first repository was excluded, the second one ran the agent
C26_Witness ==
  /\ pc = "returned" /\ cfg.n >= 2 /\ Excluded(1)
  /\ Result(1).skipReason # "" /\ Result(2).ran

\* ------------------------------------------------------------------ C27
\* C27: the change set is computed only when there is a cached revision;
\* when that fails the job goes on to the agent, its result has no error
\* from the failure, and the agent's environment holds the collection slug
\* only: no base revision and no file list.
C27_DiffFailureMeansFullRun ==
  \A i \in 1..cfg.n :
    Stored(i) =>
      /\ ({"diff", "diff failed"} \cap StageSet(hist[i].stages) # {}) =>
           Result(i).cachedCommit # ""
      /\ "diff failed" \in StageSet(hist[i].stages) =>
           /\ "agent" \in StageSet(hist[i].stages)
           /\ Result(i).diffCount = 0
           /\ (Result(i).error # "" => Result(i).exitCode # <<>>)
           /\ ~cfg.dryRun =>
                /\ hist[i].agent = 1 /\ Result(i).ran
                /\ hist[i].env = {<<"COLLECTION_SLUG", Result(i).slug>>}

\* ------------------------------------------------------------------ C21
\* C21: a call of runCodex returns the deadline-exceeded error exactly when
\* the agent process was terminated because the deadline passed; a process
\* that exited with a non-zero code by itself gets the plain failure error.
C21_TimeoutReportedIffExpired ==
  (inv.pc = "returned" /\ ~inv.dryRun) =>
    /\ inv.res[1].err = "codex exec deadline exceeded" <=> inv.outcome = "timeout"
    /\ inv.outcome \in {"exitN", "startfail"} => inv.res[1].err = "codex exec"

\* ------------------------------------------------------------------ C30
\* the characters sanitizePathComponent lets through
SafeChars == Letters \cup Digits \cup {"-", "_", "."}

\* C30: whatever the input, sanitizePathComponent returns a non-empty
\* string of letters, digits, "-", "_" and "." only; for an empty or blank
\* input it returns the token "default", for an input of which nothing but
\* underscores is left the token "component", and otherwise the trimmed
\* input with every other character replaced by "_".
C30_SanitizeIsSafe ==
  (fn.name = "sanitizePathComponent" /\ fn.called) =>
    LET v == TrimSpace(fn.value)
    IN /\ ret # <<>>
       /\ \A i \in DOMAIN ret : ret[i] \in SafeChars
       /\ v = <<>> => ret = <<"d", "e", "f", "a", "u", "l", "t">>
       /\ (v # <<>> /\ \A i \in DOMAIN v : v[i] \notin SafeChars \ {"_"}) =>
            ret = <<"c", "o", "m", "p", "o", "n", "e", "n", "t">>
       /\ (\E i \in DOMAIN v : v[i] \in SafeChars \ {"_"}) =>
            /\ Len(ret) = Len(v)
            /\ \A i \in DOMAIN v : ret[i] = (IF v[i] \in SafeChars THEN v[i] ELSE "_")

\* an input of three characters, all of them replaced
C30_Witness ==
  /\ fn.name = "sanitizePathComponent" /\ fn.called
  /\ fn.value = <<"/", "*", "/">>
  /\ ret = <<"c", "o", "m", "p", "o", "n", "e", "n", "t">>

\* ------------------------------------------------------------------ C28
\* C28: diffFilesSince with an empty base commit returns an error and runs
\* no git diff; when it succeeds its list has no empty entry and no entry
\* that is blank or starts or ends with white space.
C28_DiffNeedsBaseNoBlanks ==
  (fn.name = "diffFilesSince" /\ fn.called) =>
    /\ fn.baseCommit = "" => (ret.err /\ ret.git = 0 /\ ret.files = <<>>)
    /\ ret.err <=> (fn.baseCommit = "" \/ fn.gitFails)
    /\ ~ret.err =>
         /\ \A k \in DOMAIN ret.files :
              /\ ret.files[k] # <<>>
              /\ \E i \in DOMAIN ret.files[k] : ~IsSpace(ret.files[k][i])
              /\ ret.files[k] = TrimSpace(ret.files[k])

\* output with an empty line between two names: two files are returned
C28_Witness ==
  /\ fn.name = "diffFilesSince" /\ fn.called /\ ~ret.err
  /\ fn.output = <<"f", "\n", "\n", "f">>
  /\ ret.files = << <<"f">>, <<"f">> >>

\* ------------------------------------------------------------------ C25
\* C25: two jobs for different repositories never get the same worktree
\* path from prepareIndexWorkspace.
C25_DistinctWorktreePaths ==
  (fn.name = "prepareIndexWorkspace" /\ fn.called) =>
    (fn.repos[1] # fn.repos[2] => ret[1] # ret[2])

\* ------------------------------------------------------------------ C29
\* what shouldSkipRepo compares the patterns with
SkipAbs == Clean(fn.repoDir)
SkipRel ==
  LET r == RelPath(fn.rootDir, SkipAbs)
  IN ToSlash(TrimPrefix(IF r[2] THEN r[1] ELSE SkipAbs, <<".", "/">>))

\* the decision shouldSkipRepo takes for one pattern
PatternSkips(raw) == ShouldSkip(<<raw>>, fn.rootDir, fn.repoDir, fn.slug)[1]

\* strings.ToUpper
ToUpper(str) ==
  [i \in DOMAIN str |->
     IF \E k \in DOMAIN Lower : Lower[k] = str[i]
     THEN Upper[CHOOSE k \in DOMAIN Lower : Lower[k] = str[i]]
     ELSE str[i]]

\* strings.Contains
Contains(str, sub) ==
  \E i \in 1..(Len(str) + 1) :
     i + Len(sub) - 1 <= Len(str) /\ SubSeq(str, i, i + Len(sub) - 1) = sub

\* the pattern is, but for case, the slug or the base name
NameMatch(p) ==
  ToLower(p) \in {ToLower(fn.slug), ToLower(Base(SkipAbs))}

\* the pattern is, but for case, the root-relative path (with or without
\* "./"), the absolute path, or resolves against the scan root to it
PathMatchAsWritten(p) ==
  \/ ToLower(p) = ToLower(SkipRel)
  \/ ToLower(p) = ToLower(<<".", "/">> \o SkipRel)
  \/ ToLower(p) = ToLower(SkipAbs)
  \/ ~IsAbs(p) /\ ToLower(Clean(JoinPath(fn.rootDir, p))) = ToLower(SkipAbs)

\* the same after path cleaning of the pattern
PathMatch(p) ==
  \/ ToLower(Clean(p)) = ToLower(SkipRel)
  \/ ToLower(Clean(p)) = ToLower(SkipAbs)
  \/ ~IsAbs(p) /\ ToLower(Clean(JoinPath(fn.rootDir, Clean(p)))) = ToLower(SkipAbs)

\* the patterns of the call, trimmed, and the first one that matches
SkipPatterns == [k \in DOMAIN fn.skip |-> TrimSpace(fn.skip[k])]
SkipHits == {k \in DOMAIN fn.skip : PatternSkips(fn.skip[k])}
FirstHit == CHOOSE k \in SkipHits : \A j \in SkipHits : k <= j

\* C29 as stated: shouldSkipRepo returns true exactly when a non-empty
\* trimmed pattern equals, but for case, the slug, the base name, the
\* root-relative path with or without "./", the absolute path, or resolves
\* against the scan root to the absolute path; changing a pattern's case or
\* adding or removing a "./" prefix leaves the decision as it is; the
\* reason contains the first matching pattern literally; without a match
\* the result is (false, "").
C29_SkipMatchAsStated ==
  (fn.name = "shouldSkipRepo" /\ fn.called) =>
    /\ ret[1] <=> \E k \in DOMAIN fn.skip :
                    /\ SkipPatterns[k] # <<>>
                    /\ NameMatch(SkipPatterns[k]) \/ PathMatchAsWritten(SkipPatterns[k])
    /\ \A k \in DOMAIN fn.skip :
         LET pat == SkipPatterns[k]
         IN /\ PatternSkips(ToLower(pat)) = PatternSkips(pat)
            /\ PatternSkips(ToUpper(pat)) = PatternSkips(pat)
            /\ pat # <<>> =>
                 PatternSkips(<<".", "/">> \o pat) = PatternSkips(pat)
            /\ (HasPrefix(pat, <<".", "/">>) /\ Len(pat) > 2) =>
                 PatternSkips(SubSeq(pat, 3, Len(pat))) = PatternSkips(pat)
    /\ ret[1] => Contains(ret[2], SkipPatterns[FirstHit])
    /\ ~ret[1] => ret = <<FALSE, <<>>>>

\* C29: shouldSkipRepo returns true exactly when a non-empty trimmed
\* pattern equals, but for case, the slug or the base name, or after path
\* cleaning the root-relative path or the absolute path, or is relative
\* and resolves against the scan root to the absolute path; changing a
\* pattern's case leaves the decision as it is; a "./" put before a
\* relative pattern leaves it as it is unless the pattern matches only as
\* slug or base name, and then the prefixed pattern does not match; the
\* reason is that of the first matching pattern and contains that pattern
\* as it was given, quoted as by %q; without a match the result is
\* (false, "").
C29_SkipMatch ==
  (fn.name = "shouldSkipRepo" /\ fn.called) =>
    /\ ret[1] <=> \E k \in DOMAIN fn.skip :
                    /\ SkipPatterns[k] # <<>>
                    /\ NameMatch(SkipPatterns[k]) \/ PathMatch(SkipPatterns[k])
    /\ \A k \in DOMAIN fn.skip :
         LET pat == SkipPatterns[k]
         IN /\ PatternSkips(ToLower(pat)) = PatternSkips(pat)
            /\ PatternSkips(ToUpper(pat)) = PatternSkips(pat)
            /\ (pat # <<>> /\ ~IsAbs(pat)) =>
                 /\ PatternSkips(<<".", "/">> \o pat) <=> PathMatch(pat)
                 /\ PatternSkips(pat) <=> (NameMatch(pat) \/ PathMatch(pat))
    /\ ret[1] =>
         /\ ret[2] = SkipReason(fn.skip[FirstHit])
         /\ Contains(ret[2], Quote(fn.skip[FirstHit]))
    /\ ~ret[1] => ret = <<FALSE, <<>>>>

\* a list of two patterns, the first not matching, the second matching in
\* another case and with "./": the reason names the second
C29_Witness ==
  /\ fn.name = "shouldSkipRepo" /\ fn.called
  /\ fn.repoDir = ScanRoot \o <<"/", "a", "/", "b">>
  /\ fn.skip = << <<"/", "r", "/", "a">>, <<".", "/", "A", "/", "b">> >>
  /\ ret = <<TRUE, SkipReason(<<".", "/", "A", "/", "b">>)>>

\* ------------------------------------------------------------------ C38
\* C38: in every stored result a skip reason comes with ran = false, no
\* exit code and no error text; ran = false comes with no exit code; there
\* is an exit code exactly when there is an error text; a dry run has
\* ran = false.
C38_ResultShape ==
  \A i \in 1..cfg.n :
    Stored(i) =>
      LET r == Result(i)
      IN /\ r.skipReason # "" => (~r.ran /\ r.exitCode = <<>> /\ r.error = "")
         /\ ~r.ran => r.exitCode = <<>>
         /\ r.exitCode # <<>> <=> r.error # ""
         /\ r.dryRun => ~r.ran
         /\ r.dryRun = cfg.dryRun

\* the run stored a result whose agent could not be started (exit code 1
\* and an error), one that was skipped, and one that succeeded
C38_Witness ==
  /\ pc = "returned" /\ cfg.n >= 2 /\ ~cfg.dryRun
  /\ \E i, j \in 1..cfg.n :
       /\ Result(i).ran /\ Result(i).exitCode = <<1>> /\ Result(i).error = "codex exec"
       /\ Result(j).skipReason # "" /\ ~Result(j).ran

\* ------------------------------------------------------------------ C37
\* the job's branch or revision is unknown, or there is no cache
Unknown(i) ==
  Result(i).defaultBranch = "" \/ Result(i).indexedCommit = "" \/ cfg.cache = "nil"

\* C37: a job whose branch or revision could not be determined, or that
\* runs without a cache, is not skipped as already indexed, computes no
\* change set, starts the agent with the collection slug only, and writes
\* nothing to the cache, also when the agent succeeds.
C37_UnknownMeansFullRunNoCacheWrite ==
  \A i \in 1..cfg.n :
    (Stored(i) /\ ~Excluded(i) /\ Unknown(i)) =>
      /\ Result(i).skipReason = ""
      /\ Result(i).cachedCommit = "" /\ Result(i).diffBase = ""
      /\ Result(i).diffCount = 0
      /\ {"diff", "diff failed"} \cap StageSet(hist[i].stages) = {}
      /\ "agent" \in StageSet(hist[i].stages)
      /\ ~cfg.dryRun => (hist[i].agent = 1 /\ Result(i).ran
                         /\ hist[i].env = {<<"COLLECTION_SLUG", Result(i).slug>>})
      /\ hist[i].updates = 0

\* a cache is configured and holds a revision for the repository's default
\* branch, the revision of the working tree could not be determined, and
\* the agent succeeded: nothing was written to the cache
C37_Witness ==
  /\ pc = "returned" /\ cfg.n = 1 /\ cfg.cache = "file" /\ ~cfg.dryRun
  /\ cache # EmptyMap
  /\ Result(1).defaultBranch = "main" /\ Result(1).indexedCommit = ""
  /\ Result(1).ran /\ Result(1).error = "" /\ hist[1].updates = 0

\* ------------------------------------------------------------------ C35
\* C35: when persistCache fails after a successful job, processRepo returns
\* the result it had (ran = true, no exit code, no error text) and the
\* cache in memory keeps the entry the job wrote.
C35_SaveFailureKeepsJob ==
  /\ [](\A i \in 1..cfg.n :
          (Stored(i) /\ hist[i].updates = 1) =>
            /\ Result(i).ran /\ Result(i).exitCode = <<>> /\ Result(i).error = ""
            /\ Result(i).slug \in DOMAIN cache
            /\ Result(i).defaultBranch \in DOMAIN cache[Result(i).slug]
            /\ cache[Result(i).slug][Result(i).defaultBranch] = Result(i).indexedCommit)
  /\ [][\A w \in WorkerIds :
          (wk[w].phase = "persist" /\ wk'[w].phase = "idle") =>
            /\ results'[wk[w].job] = <<wk[w].res[1]>>
            /\ cache' = cache /\ pc' = pc]_vars

\* the first job succeeded and updated the cache, the save to the cache
\* file failed, and the result is stored as a success
C35_Witness ==
  /\ pc = "seq" /\ cfg.cache = "file" /\ Stored(1) /\ hist[1].updates = 1
  /\ file # <<cache>>
  /\ Result(1).ran /\ Result(1).error = "" /\ Result(1).exitCode = <<>>
  /\ cache[Result(1).slug]["main"] = "c1"

\* ------------------------------------------------------------------ C39
\* C39: a job that writes a cache entry for a branch ran the agent on a
\* tree of that branch: the branch of the entry is the branch checked out
\* in the directory the agent worked in, whenever that branch is known.
C39_EntryIsOfIndexedTree ==
  \A w \in WorkerIds :
    wk[w].phase \in {"update", "updating", "persist"} =>
      /\ wk[w].indexBranch # "" /\ wk[w].res[1].indexedCommit # ""
      /\ wk[w].tree # "" => wk[w].indexBranch = wk[w].tree

\* ------------------------------------------------------------------ C36
\* C36: whichever of its two steps fail, the deferred cleanup leaves the
\* job's result as it was, and it attempts the removal of the directory
\* after the removal of the worktree registration, also when that failed;
\* each failure gives one warning.
C36_CleanupFailureOnlyLogged ==
  (fn.name = "cleanup" /\ fn.called) =>
    /\ ret.res = fn.res
    /\ ret.cmds = <<"git worktree remove", "os.RemoveAll">>
    /\ ret.warnings = Cardinality({x \in {<<1, fn.rm>>, <<2, fn.del>>} : x[2] = "fail"})

\* both steps of the cleanup failed for a job whose agent had succeeded
C36_Witness ==
  /\ fn.name = "cleanup" /\ fn.called /\ fn.rm = "fail" /\ fn.del = "fail"
  /\ fn.res.ran /\ fn.res.error = "" /\ ret.res.error = "" /\ ret.warnings = 2

\* ------------------------------------------------------------------ C34
\* C34: with a timeout of zero the invocation has no deadline: the agent
\* is never terminated by runCodex, no deadline ever passes, and the call
\* never returns the deadline-exceeded error; only with a positive timeout
\* can the deadline pass, and it passes at most once in an invocation.
C34_ZeroTimeoutIsUnbounded ==
  /\ [](inv.pc \notin {"off", "free"} =>
          /\ inv.timeout = 0 =>
               /\ ~inv.expired /\ inv.outcome # "timeout"
               /\ (inv.pc = "returned" /\ ~inv.dryRun) =>
                    inv.res[1].err # "codex exec deadline exceeded"
          /\ inv.expired => inv.timeout > 0)
  /\ [][inv.expired => inv'.expired]_vars

\* without a timeout the agent exited with a non-zero code after the feeder
\* had written several newlines, and the call returned the plain error
C34_Witness ==
  /\ inv.pc = "returned" /\ inv.timeout = 0 /\ ~inv.dryRun
  /\ inv.outcome = "exitN" /\ nf.emitted >= 2
  /\ inv.res[1].err = "codex exec" /\ inv.res[1].exitCode = <<2>>

\* ------------------------------------------------------------------ C33
\* C33: after the agent process has exited or was killed, cmd.Run returns
\* without an interval wait of the feeder having to end first: no Read
\* waits out its interval between the end of the process and the return.
C33_NoWaitAfterExit ==
  [][~(inv.pc = "exited" /\ rd.at = "wait" /\ rd'.at = "check")]_vars

\* ------------------------------------------------------------------ C32
\* C32 as stated: a Read of the Armed feeder either waited for the
\* interval and returned one newline, or returned end of stream because
\* the feeder was closed.
C32_ArmedReadWaitsOrEnds ==
  (rd.at # "off" /\ rd.last # <<>> /\ ~rd.last[1].fresh) =>
    \/ /\ rd.last[1].n = 1 /\ rd.last[1].buf = <<"\n">> /\ rd.last[1].err = ""
       /\ rd.last[1].waited
    \/ /\ rd.last[1].n = 0 /\ rd.last[1].err = "EOF" /\ rd.last[1].closedAtReturn

\* C32, amended: a Read of the Armed feeder with a non-empty buffer either
\* waited for the interval and returned one newline, the feeder not being
\* closed, or returned end of stream because the feeder was closed, and
\* without the wait when it was closed before the call; a Read with an
\* empty buffer returns zero bytes and no error without waiting; every
\* Read returns; the feeder stays Armed.
C32_ArmedRead ==
  /\ []((rd.at # "off" /\ rd.last # <<>> /\ ~rd.last[1].fresh) =>
          IF rd.last[1].len = 0
          THEN rd.last[1].n = 0 /\ rd.last[1].err = "" /\ ~rd.last[1].waited
          ELSE /\ \/ /\ rd.last[1].n = 1 /\ rd.last[1].buf = <<"\n">>
                     /\ rd.last[1].err = "" /\ rd.last[1].waited
                     /\ ~rd.last[1].closedAtCall /\ ~rd.last[1].closedAtReturn
                  \/ /\ rd.last[1].n = 0 /\ rd.last[1].err = "EOF"
                     /\ rd.last[1].closedAtReturn
               /\ rd.last[1].closedAtCall => ~rd.last[1].waited)
  /\ [][(nf.made /\ ~nf.first) => ~nf'.first]_vars
  /\ (rd.at \in {"wait", "check"}) ~> (rd.at \in {"idle", "stopped"})

\* the Armed feeder was closed while a Read was waiting for the interval,
\* and the Read returned end of stream without the interval being over
C32_Witness ==
  /\ nf.made /\ nf.done /\ rd.at = "idle" /\ rd.last # <<>>
  /\ ~rd.last[1].fresh /\ rd.last[1].len > 0 /\ ~rd.last[1].closedAtCall
  /\ ~rd.last[1].waited /\ rd.last[1].err = "EOF" /\ nf.emitted >= 1

\* ------------------------------------------------------------------ C40
\* C40: every queued job eventually stores its result and runAll
\* eventually returns, for every worker count and every mix of agent
\* outcomes.
C40_AllStoredAndReturns ==
  <>(pc = "returned" /\ \A i \in 1..cfg.n : Stored(i))

\* every run of runAll ends: it returns with every result stored, or the
\* process is aborted
C40_ReturnsOrAborts ==
  <>(\/ pc = "returned" /\ \A i \in 1..cfg.n : Stored(i)
     \/ pc = "crashed")

\* ------------------------------------------------------------------ C31
\* C31: with more than one worker no two Write calls on the shared stream
\* overlap: at most one worker is inside the stream's Write, it holds the
\* lock, and the parts of one call lie next to each other in the stream,
\* in order and complete before the next call's first part.
C31_WritesDoNotOverlap ==
  (lw.workers > 1) =>
    /\ \A i, j \in 1..lw.workers :
         (lw.w[i].at = "inner" /\ lw.w[j].at = "inner") => i = j
    /\ \A i \in 1..lw.workers : lw.w[i].at = "inner" => lw.mu = i
    /\ \A k \in 1..Len(lw.stream) :
         IF lw.stream[k].part > 1
         THEN /\ k > 1
              /\ lw.stream[k - 1] = [lw.stream[k] EXCEPT !.part = @ - 1]
         ELSE k > 1 => lw.stream[k - 1].part = MaxParts

\* two workers' sections alternate in the stream, call by call: worker 1's
\* first call, then a call of worker 2, then worker 1's second call, while
\* worker 2 waits for the lock with its next call
C31_Witness ==
  /\ lw.workers > 1 /\ Len(lw.stream) >= 2 * MaxParts + 1
  /\ lw.stream[1].by = 1 /\ lw.stream[MaxParts + 1].by = 2
  /\ lw.stream[2 * MaxParts + 1].by = 1
  /\ lw.w[1].at = "inner" /\ lw.w[2].at = "lock"

====
